---- MODULE Spec2Model ----
(***************************************************************************)
(* Employee-report pipeline of real-world-fp: censor, JSON.parse, filter   *)
(* active, sortByLastName, JSONtoTable, join / toHTML, and the procedural  *)
(* class variants.  Texts are sequences of one-character strings so that   *)
(* the regular expression, the JSON decoder and the renderers work on the  *)
(* characters themselves.                                                  *)
(***************************************************************************)
EXTENDS Integers, Sequences, FiniteSets, TLC

VARIABLES
    pc,         \* position of the caller: "start", then one label per call made
    str,        \* the text handed to censor / the content of employees.json
    outs,       \* the texts returned by the successive censor calls
    heap,       \* array objects: reference -> sequence of employee records
    xs,         \* reference of the array passed to the function under call, or this.employees
    xs0,        \* content of heap[xs] when the call was made
    order,      \* the order argument ("asc", "desc" or "undefined")
    ret,        \* reference, number or "this" returned by the call ("none" before the call)
    fileEmployees, \* the records employees.json was written from
    table,      \* the table built by JSONtoTable
    rendered,   \* the text built by join("\n") or toHTML
    now,        \* the system clock, in milliseconds since the epoch
    written,    \* the contents written by the successive report calls
    objs,       \* employee objects: reference -> the object's fields
    calls       \* the method calls made on the instance after its construction

textVars == <<str, outs>>
arrayVars == <<heap, objs, xs, xs0, order, ret>>
pipeVars == <<fileEmployees, table, rendered>>
envVars == <<now, written, calls>>

vars == <<pc, str, outs, heap, xs, xs0, order, ret, fileEmployees, table, rendered,
          now, written, objs, calls>>

----------------------------------------------------------------------------
(* Bounds *)

MaxFragments == 4      \* fragments concatenated into a text given to censor
MaxCalls == 2          \* successive censor calls on one text
MaxLen == 3            \* employee records in an input array

----------------------------------------------------------------------------
(* Characters and strings *)

Digits == {"0", "1", "2", "3", "4", "5", "6", "7", "8", "9"}

\* The characters the model uses, in increasing UTF-16 code unit order.
CodeOrder ==
    << "\n", " ", "\"", ",", "-", "/",
       "0", "1", "2", "3", "4", "5", "6", "7", "8", "9", ":", "<", ">",
       "A", "B", "C", "D", "F", "J", "L", "M", "N", "P", "R", "S", "T",
       "[", "]",
       "a", "b", "c", "d", "e", "f", "h", "i", "l", "m", "n", "o", "p", "r",
       "s", "t", "u", "v", "w", "x", "y", "{", "}" >>


RECURSIVE Concat(_)
Concat(ss) == IF ss = <<>> THEN <<>> ELSE Head(ss) \o Concat(Tail(ss))

\* a < b on JavaScript strings: compare code units left to right, a proper
\* prefix is smaller.
RECURSIVE StrLess(_, _)
StrLess(a, b) ==
    IF b = <<>> THEN FALSE
    ELSE IF a = <<>> THEN TRUE
    ELSE IF Head(a) = Head(b) THEN StrLess(Tail(a), Tail(b))
    ELSE LET Code(c) == CHOOSE i \in 1..Len(CodeOrder) : CodeOrder[i] = c
         IN Code(Head(a)) < Code(Head(b))

----------------------------------------------------------------------------
(* censor: s.replace(/\d{3}-\d{2}-(\d{4})/g, (_, lastFour) => ...) *)


\* /\d{3}-\d{2}-(\d{4})/ matches s at position i.
MatchesAt(s, i) ==
    /\ \A k \in {0, 1, 2, 4, 5, 7, 8, 9, 10} : i + k <= Len(s) /\ s[i + k] \in Digits
    /\ \A k \in {3, 6} : i + k <= Len(s) /\ s[i + k] = "-"

\* the replacer callback: `xxx-xx-${lastFour}`
Replacement(lastFour) == <<"x", "x", "x", "-", "x", "x", "-">> \o lastFour

\* RegExp exec from lastIndex i: the leftmost position at or after i where
\* the pattern matches, 0 when there is none
NextMatch(s, i) ==
    LET hits == {j \in i..Len(s) : MatchesAt(s, j)}
    IN IF hits = {} THEN 0 ELSE CHOOSE h \in hits : \A g \in hits : h <= g

\* the text from position i on with only the first match replaced
ReplaceFirstOnlyFrom(s, i) ==
    LET j == NextMatch(s, i)
    IN IF j = 0 THEN SubSeq(s, i, Len(s))
       ELSE SubSeq(s, i, j - 1) \o Replacement(SubSeq(s, j + 7, j + 10))
            \o SubSeq(s, j + 11, Len(s))

\* String.prototype.replace with a global regular expression: the matches
\* are searched left to right, each search resuming after the previous
\* match; the text between matches is copied.
RECURSIVE ReplaceAllFrom(_, _)
ReplaceAllFrom(s, i) ==
    LET j == NextMatch(s, i)
    IN IF j = 0 THEN SubSeq(s, i, Len(s))
       ELSE SubSeq(s, i, j - 1) \o Replacement(SubSeq(s, j + 7, j + 10))
            \o ReplaceAllFrom(s, j + 11)

censor(s) == ReplaceAllFrom(s, 1)

----------------------------------------------------------------------------
(* Texts handed to censor: concatenations of fragments *)



Texts ==
    LET Fragments ==
            { <<"1", "6", "5", "-", "0", "2", "-", "2", "5", "8", "8">>,
              <<"-", "0", "2", "-">>,
              <<"2", "5", "8", "8">>,
              <<"1", "6", "5">>,
              <<"7">>,
              <<"-">>,
              <<"a">> }
    IN { Concat(fs) : fs \in UNION { [1..n -> Fragments] : n \in 0..MaxFragments } }

----------------------------------------------------------------------------
(* Calling censor, and calling it again on its own result *)

InitCensor ==
    /\ pc = "start"
    /\ str \in Texts
    /\ outs = <<>>
    /\ heap = <<>>
    /\ xs = "none"
    /\ xs0 = <<>>
    /\ order = "undefined"
    /\ ret = "none"
    /\ fileEmployees = <<>>
    /\ table = <<>>
    /\ rendered = <<>>
    /\ now = 0
    /\ written = <<>>
    /\ objs = <<>>
    /\ calls = 0

CallCensor ==
    /\ pc \in {"start", "censored"}
    /\ Len(outs) < MaxCalls
    /\ outs' = Append(outs, censor(IF outs = <<>> THEN str ELSE outs[Len(outs)]))
    /\ pc' = "censored"
    /\ UNCHANGED <<str, arrayVars, pipeVars, envVars>>

NextCensor == CallCensor

SpecCensor == InitCensor /\ [][NextCensor]_vars

----------------------------------------------------------------------------
(* Claims about censor *)

\* argument and result of the k-th censor call
CensorArg(k) == IF k = 1 THEN str ELSE outs[k - 1]
CensorRes(k) == outs[k]

Covered(s, i) == \E j \in (i - 10)..i : j >= 1 /\ MatchesAt(s, j)

\* The match at i is one the left-to-right search finds: no earlier found
\* match extends over position i.
RECURSIVE Found(_, _)
Found(s, i) ==
    /\ i >= 1
    /\ MatchesAt(s, i)
    /\ \A j \in (i - 10)..(i - 1) : ~Found(s, j)

InFound(s, i) == \E j \in (i - 10)..i : Found(s, j)

Ssn165 == <<"1", "6", "5", "-", "0", "2", "-", "2", "5", "8", "8">>
Xxx2588 == <<"x", "x", "x", "-", "x", "x", "-", "2", "5", "8", "8">>

\* C9 as stated: every substring of the form ddd-dd-dddd of s is replaced in
\* censor(s) by xxx-xx- followed by its own last four digits, and every
\* character outside a match is unchanged.
C9_EverySubstringReplaced ==
    \A k \in 1..Len(outs) :
        LET s == CensorArg(k)
            o == CensorRes(k)
        IN /\ Len(o) = Len(s)
           /\ \A i \in 1..Len(s) :
                /\ MatchesAt(s, i) =>
                     SubSeq(o, i, i + 10) = Replacement(SubSeq(s, i + 7, i + 10))
                /\ ~Covered(s, i) => o[i] = s[i]

\* C9 amended: every match found scanning left to right, each search resuming
\* after the previous match, is replaced by xxx-xx- followed by its own last
\* four digits; every other character is unchanged (a match that begins
\* inside an earlier found match is left as it is);
\* censor("165-02-2588") = "xxx-xx-2588".
C9_FoundMatchesReplaced ==
    \A k \in 1..Len(outs) :
        LET s == CensorArg(k)
            o == CensorRes(k)
        IN /\ Len(o) = Len(s)
           /\ \A i \in 1..Len(s) :
                /\ Found(s, i) =>
                     SubSeq(o, i, i + 10) = Replacement(SubSeq(s, i + 7, i + 10))
                /\ ~InFound(s, i) => o[i] = s[i]
           /\ s = Ssn165 => o = Xxx2588

\* censor has run on a text holding two identifiers and other characters
C9_Witness ==
    /\ Len(outs) >= 1
    /\ Cardinality({i \in 1..Len(str) : Found(str, i)}) >= 2
    /\ \E i \in 1..Len(str) : ~InFound(str, i)
    /\ outs[1] # str

\* C10: censor(censor(s)) = censor(s) for every text s.
C10_Idempotent ==
    Len(outs) >= 2 => outs[2] = outs[1]

----------------------------------------------------------------------------
(* Employee records and arrays of them *)

LastNames == { <<"A">>, <<"B">>, <<"B", "a">>, <<"C">> }

\* the record shape of employees.json
Employees ==
    { [active |-> a,
       socialSecurity |-> Ssn165,
       firstName |-> f,
       lastName |-> l,
       pay |-> <<1, 2>>] : a \in BOOLEAN, f \in { <<"J">>, <<"M">> }, l \in LastNames }



----------------------------------------------------------------------------
(* sortByLastName *)

\* the comparator of the one-argument sortByLastName
compareFn(firstEl, secondEl) ==
    IF StrLess(firstEl.lastName, secondEl.lastName) THEN -1
    ELSE IF StrLess(secondEl.lastName, firstEl.lastName) THEN 1
    ELSE 0

\* the parameterized comparator with the two order settings exchanged
compareFn2Swapped(firstEl, secondEl, ord) ==
    IF StrLess(firstEl.lastName, secondEl.lastName)
    THEN (IF ord = "desc" THEN 1 ELSE -1)
    ELSE IF StrLess(secondEl.lastName, firstEl.lastName)
    THEN (IF ord = "desc" THEN -1 ELSE 1)
    ELSE 0

\* the parameterized comparator testing <= where the code tests <
compareFn2TiesFirst(firstEl, secondEl, ord) ==
    IF ~StrLess(secondEl.lastName, firstEl.lastName)
    THEN (IF ord = "desc" THEN -1 ELSE 1)
    ELSE (IF ord = "desc" THEN 1 ELSE -1)

\* the parameterized comparator never looking at order
compareFn2IgnoringOrder(firstEl, secondEl, ord) ==
    IF StrLess(firstEl.lastName, secondEl.lastName) THEN 1
    ELSE IF StrLess(secondEl.lastName, firstEl.lastName) THEN -1
    ELSE 0

\* the comparator of the parameterized sortByLastName(xs, order)
compareFn2(firstEl, secondEl, ord) ==
    IF StrLess(firstEl.lastName, secondEl.lastName)
    THEN (IF ord = "desc" THEN -1 ELSE 1)
    ELSE IF StrLess(secondEl.lastName, firstEl.lastName)
    THEN (IF ord = "desc" THEN 1 ELSE -1)
    ELSE 0

\* The comparator a call uses: ord = "none" is the one-argument function.
SortCompare(a, b, ord) ==
    IF ord = "none" THEN compareFn(a, b) ELSE compareFn2(a, b, ord)

\* One insertion step of Array.prototype.sort: x moves left past every
\* element it compares smaller than, and stops at the first it does not.
RECURSIVE InsertSkippingEqual(_, _, _)
InsertSkippingEqual(sorted, x, ord) ==
    IF sorted # <<>> /\ SortCompare(x, sorted[Len(sorted)], ord) = 0
    THEN sorted
    ELSE IF sorted # <<>> /\ SortCompare(x, sorted[Len(sorted)], ord) < 0
    THEN Append(InsertSkippingEqual(SubSeq(sorted, 1, Len(sorted) - 1), x, ord),
                sorted[Len(sorted)])
    ELSE Append(sorted, x)

RECURSIVE Insert(_, _, _)
Insert(sorted, x, ord) ==
    IF sorted # <<>> /\ SortCompare(x, sorted[Len(sorted)], ord) < 0
    THEN Append(Insert(SubSeq(sorted, 1, Len(sorted) - 1), x, ord),
                sorted[Len(sorted)])
    ELSE Append(sorted, x)

\* Array.prototype.sort(comparefn): a stable sort of the elements
RECURSIVE ArraySort(_, _)
ArraySort(arr, ord) ==
    IF arr = <<>> THEN <<>>
    ELSE Insert(ArraySort(SubSeq(arr, 1, Len(arr) - 1), ord), arr[Len(arr)], ord)

\* Array.prototype.filter / R.filter with x => x.active, and the loop of
\* filterByActive: a new array of the elements that pass, in order
RECURSIVE FilterInactive(_)
FilterInactive(arr) ==
    IF arr = <<>> THEN <<>>
    ELSE IF ~Head(arr).active
         THEN <<Head(arr)>> \o FilterInactive(Tail(arr))
         ELSE FilterInactive(Tail(arr))

FilterKeepAll(arr) == arr

\* the loop of the filter starting at the second element
FilterActiveFromSecond(arr) ==
    IF arr = <<>> THEN <<>> ELSE SelectSeq(Tail(arr), LAMBDA e : e.active)

RECURSIVE FilterActive(_)
FilterActive(arr) ==
    IF arr = <<>> THEN <<>>
    ELSE IF Head(arr).active
         THEN <<Head(arr)>> \o FilterActive(Tail(arr))
         ELSE FilterActive(Tail(arr))

----------------------------------------------------------------------------
(* Calling the sort functions and the filters on an array *)

InitArrays ==
    /\ pc = "start"
    /\ str = <<>>
    /\ outs = <<>>
    /\ \E arr \in UNION { [1..n -> Employees] : n \in 0..MaxLen } :
          heap = <<arr>> /\ xs0 = arr
    /\ xs = 1
    /\ order \in {"asc", "desc", "undefined"}
    /\ ret = "none"
    /\ fileEmployees = <<>>
    /\ table = <<>>
    /\ rendered = <<>>
    /\ now = 0
    /\ written = <<>>
    /\ objs = <<>>
    /\ calls = 0

\* sortByLastName(xs): xs.sort(...) sorts the array in place and returns it
SortByLastName ==
    /\ pc = "start"
    /\ heap' = [heap EXCEPT ![xs] = ArraySort(heap[xs], "none")]
    /\ ret' = xs
    /\ pc' = "sorted"
    /\ UNCHANGED <<textVars, xs, xs0, order, pipeVars, envVars, objs>>

\* sortByLastName(xs, order), called with order omitted when it is "undefined"
SortByLastName2 ==
    /\ pc = "start"
    /\ heap' = [heap EXCEPT ![xs] = ArraySort(heap[xs], order)]
    /\ ret' = xs
    /\ pc' = "sorted2"
    /\ UNCHANGED <<textVars, xs, xs0, order, pipeVars, envVars, objs>>

NextSort == SortByLastName \/ SortByLastName2

SpecSort == InitArrays /\ [][NextSort]_vars

\* filter((x) => x.active)(xs)
SelectActive ==
    /\ pc = "start"
    /\ heap' = Append(heap, FilterActive(heap[xs]))
    /\ ret' = Len(heap) + 1
    /\ pc' = "selected"
    /\ UNCHANGED <<textVars, xs, xs0, order, pipeVars, envVars, objs>>

\* SalaryReporter.filterByActive(): this.employees = ret
FilterByActive ==
    /\ pc = "start"
    /\ heap' = Append(heap, FilterActive(heap[xs]))
    /\ ret' = Len(heap) + 1
    /\ pc' = "filtered"
    /\ UNCHANGED <<textVars, xs, xs0, order, pipeVars, envVars, objs>>

NextSelect == SelectActive \/ FilterByActive

SpecSelect == InitArrays /\ [][NextSelect]_vars

----------------------------------------------------------------------------
(* Claims about selectActive *)

ActiveIndices(arr) == {i \in 1..Len(arr) : arr[i].active}

\* the k-th index of arr, counted from the left, that holds an active record
KthActive(arr, k) ==
    CHOOSE i \in ActiveIndices(arr) :
        Cardinality({j \in ActiveIndices(arr) : j < i}) = k - 1

\* C2: the filter returns exactly the subsequence of the records whose active
\* attribute is true: one output record per active input record, each being
\* that input record, in the input's relative order.
C2_SelectActiveSubsequence ==
    pc \in {"selected", "filtered"} =>
        LET res == heap[ret]
        IN /\ Len(res) = Cardinality(ActiveIndices(xs0))
           /\ \A k \in 1..Len(res) :
                /\ res[k].active = TRUE
                /\ res[k] = xs0[KthActive(xs0, k)]

\* a filter has run on an array holding an inactive record between two
\* different active ones
C2_Witness ==
    /\ pc \in {"selected", "filtered"}
    /\ Len(xs0) = 3
    /\ xs0[1].active /\ ~xs0[2].active /\ xs0[3].active
    /\ xs0[1] # xs0[3]
    /\ Len(heap[ret]) = 2

----------------------------------------------------------------------------
(* Claims about sortByLastName *)

LastNamesOf(arr) == [i \in 1..Len(arr) |-> arr[i].lastName]

StrLeq(a, b) == ~StrLess(b, a)

NonDecreasing(arr) ==
    \A i \in 1..(Len(arr) - 1) : StrLeq(arr[i].lastName, arr[i + 1].lastName)

NonIncreasing(arr) ==
    \A i \in 1..(Len(arr) - 1) : StrLeq(arr[i + 1].lastName, arr[i].lastName)

Count(arr, e) == Cardinality({i \in 1..Len(arr) : arr[i] = e})

WithLastName(arr, l) == SelectSeq(arr, LAMBDA e : e.lastName = l)

Sorted == pc \in {"sorted", "sorted2"}

\* C3: sortByLastName(records, "asc") returns the records in non-decreasing
\* lastName order and sortByLastName(records, "desc") in non-increasing
\* lastName order.
C3_AscNonDecreasingDescNonIncreasing ==
    pc = "sorted2" =>
        /\ order = "asc" => NonDecreasing(heap[ret])
        /\ order = "desc" => NonIncreasing(heap[ret])

\* C4: for every input and every order setting the result of sortByLastName
\* is a permutation of the input: same length, every record as many times.
C4_SortIsPermutation ==
    Sorted =>
        /\ Len(heap[ret]) = Len(xs0)
        /\ \A e \in Employees : Count(heap[ret], e) = Count(xs0, e)

\* a sort has run on an array holding one record twice and has moved a record
C4_Witness ==
    /\ Sorted
    /\ \E e \in Employees : Count(xs0, e) = 2
    /\ heap[ret] # xs0

\* C5: sortByLastName does not mutate its input: after the call the array
\* passed in holds the same records in their original order, and the result
\* is a distinct new array.
C5_SortLeavesInputUntouched ==
    Sorted => heap[xs] = xs0 /\ ret # xs

\* C6: sortByLastName is stable for both order settings: records with equal
\* lastName keep the relative order they had in the input.
C6_SortIsStable ==
    Sorted =>
        \A l \in LastNames : WithLastName(heap[ret], l) = WithLastName(xs0, l)

\* a sort has moved records of an array in which two different records share
\* a lastName
C6_Witness ==
    /\ Sorted
    /\ \E i, j \in 1..Len(xs0) :
          i < j /\ xs0[i].lastName = xs0[j].lastName /\ xs0[i] # xs0[j]
    /\ heap[ret] # xs0

\* C7: with the order argument omitted, sortByLastName(records) returns the
\* records in non-decreasing lastName order.
C7_OmittedOrderNonDecreasing ==
    (pc = "sorted2" /\ order = "undefined") => NonDecreasing(heap[ret])

\* C8: as the repository's test states it, sortByLastName(xs, "desc") on last
\* names B, A, C returns A, B, C and sortByLastName(xs, "asc") returns
\* C, B, A; "desc" yields every lastName less than or equal to the next one,
\* "asc" every lastName greater than or equal to the next one.
C8_DescGoesUpAscGoesDown ==
    pc = "sorted2" =>
        /\ order = "desc" => NonDecreasing(heap[ret])
        /\ order = "asc" => NonIncreasing(heap[ret])
        /\ (order = "desc" /\ LastNamesOf(xs0) = << <<"B">>, <<"A">>, <<"C">> >>)
              => LastNamesOf(heap[ret]) = << <<"A">>, <<"B">>, <<"C">> >>
        /\ (order = "asc" /\ LastNamesOf(xs0) = << <<"B">>, <<"A">>, <<"C">> >>)
              => LastNamesOf(heap[ret]) = << <<"C">>, <<"B">>, <<"A">> >>

\* the test's call: sortByLastName on last names B, A, C with order "desc"
C8_Witness ==
    /\ pc = "sorted2"
    /\ order = "desc"
    /\ LastNamesOf(xs0) = << <<"B">>, <<"A">>, <<"C">> >>
    /\ LastNamesOf(heap[ret]) = << <<"A">>, <<"B">>, <<"C">> >>

----------------------------------------------------------------------------
(* Numbers as text *)

DigitOf == <<"0", "1", "2", "3", "4", "5", "6", "7", "8", "9">>


\* String(n) for a non-negative integer n
RECURSIVE NumberToString(_)
NumberToString(n) ==
    IF n < 10 THEN <<DigitOf[n + 1]>>
    ELSE NumberToString(n \div 10) \o <<DigitOf[(n % 10) + 1]>>

\* the value of a run of decimal digits
RECURSIVE DigitsToNumber(_)
DigitsToNumber(ds) ==
    IF ds = <<>> THEN 0
    ELSE 10 * DigitsToNumber(SubSeq(ds, 1, Len(ds) - 1)) 
         + (CHOOSE k \in 1..10 : DigitOf[k] = ds[Len(ds)]) - 1

----------------------------------------------------------------------------
(* Numbers with a fraction: IEEE 754 binary64 arithmetic

   An unsigned integer of any size is a sequence of limbs of LimbBits bits,
   most significant first and without leading zero limbs.  A positive
   Number is [m, e] with m of exactly 53 bits, standing for m * 2^e; zero is
   [m |-> <<>>, e |-> 0].  Only non-negative finite normal Numbers are
   modelled. *)

MantissaBits == 53     \* bits of the significand of a binary64
LimbBits == 15         \* bits held by one element of a long integer
Base == 2 ^ LimbBits

ZeroLimbs(n) == [i \in 1..n |-> 0]

StripZeros(a) ==
    LET nz == {i \in 1..Len(a) : a[i] # 0}
    IN IF nz = {} THEN <<>>
       ELSE SubSeq(a, CHOOSE i \in nz : \A j \in nz : i <= j, Len(a))

RECURSIVE FromNat(_)
FromNat(n) == IF n = 0 THEN <<>> ELSE FromNat(n \div Base) \o <<n % Base>>


\* a + b: limb i receives a carry when a less significant limb overflows
\* and every limb in between is full
AddLong(a, b) ==
    LET n == (IF Len(a) > Len(b) THEN Len(a) ELSE Len(b)) + 1
        x == ZeroLimbs(n - Len(a)) \o a
        y == ZeroLimbs(n - Len(b)) \o b
        carry(i) ==
            IF \E j \in (i + 1)..n :
                  /\ x[j] + y[j] >= Base
                  /\ \A k \in (i + 1)..(j - 1) : x[k] + y[k] = Base - 1
            THEN 1 ELSE 0
    IN StripZeros([i \in 1..n |-> (x[i] + y[i] + carry(i)) % Base])

\* a * c for a small factor c < Base
MulSmall(a, c) ==
    AddLong([i \in 1..Len(a) |-> (a[i] * c) % Base],
            [i \in 1..Len(a) |-> (a[i] * c) \div Base] \o <<0>>)

\* the remainder of the first i limbs of a by a small divisor d < Base
RECURSIVE PrefixRem(_, _, _)
PrefixRem(a, i, d) ==
    IF i = 0 THEN 0 ELSE (PrefixRem(a, i - 1, d) * Base + a[i]) % d

\* quotient (as long as a) and remainder of a by a small divisor d < Base
DivSmall(a, d) ==
    [q |-> [i \in 1..Len(a) |-> (PrefixRem(a, i - 1, d) * Base + a[i]) \div d],
     r |-> PrefixRem(a, Len(a), d)]

\* a * 2^s
ShiftLeft(a, s) == MulSmall(a \o ZeroLimbs(s \div LimbBits), 2 ^ (s % LimbBits))

\* a / 2^s: the quotient and whether anything was left over
ShiftRight(a, s) ==
    LET drop == s \div LimbBits
        kept == SubSeq(a, 1, Len(a) - drop)
        d == DivSmall(kept, 2 ^ (s % LimbBits))
    IN [q |-> StripZeros(d.q),
        inexact |-> d.r # 0 \/ \E i \in (Len(a) - drop + 1)..Len(a) : i >= 1 /\ a[i] # 0]

BitLength(a) ==
    IF a = <<>> THEN 0
    ELSE LimbBits * (Len(a) - 1)
         + (CHOOSE k \in 1..LimbBits : 2 ^ (k - 1) <= a[1] /\ a[1] < 2 ^ k)


\* a / 10^p, four decimals at a time: the quotient and whether anything
\* was left over
RECURSIVE DivPow10(_, _)
DivPow10(a, p) ==
    IF p = 0 THEN [q |-> a, inexact |-> FALSE]
    ELSE LET c == IF p >= 4 THEN 4 ELSE p
             d == DivSmall(a, 10 ^ c)
             rest == DivPow10(StripZeros(d.q), p - c)
         IN [q |-> rest.q, inexact |-> rest.inexact \/ d.r # 0]

\* a * 10^p, four decimals at a time
RECURSIVE TimesPow10(_, _)
TimesPow10(a, p) ==
    IF p = 0 THEN a
    ELSE IF p >= 4 THEN TimesPow10(MulSmall(a, 10000), p - 4)
    ELSE MulSmall(a, 10 ^ p)

\* a chopped after its first n bits and rounded to nearest, ties to even;
\* inexact tells that the value lies strictly above a
RoundBits(a, n, inexact) ==
    IF BitLength(a) <= n THEN a
    ELSE LET t == ShiftRight(a, BitLength(a) - n - 1)
             keep == ShiftRight(t.q, 1).q
             odd(v) == v # <<>> /\ v[Len(v)] % 2 = 1
             half == odd(t.q)
             more == inexact \/ t.inexact
         IN IF half /\ (more \/ odd(keep)) THEN AddLong(keep, <<1>>) ELSE keep

Zero64 == [m |-> <<>>, e |-> 0]

\* like ToNumber64 but chopping instead of rounding to nearest
ToNumber64Chopped(a, e, inexact) ==
    IF a = <<>> THEN Zero64
    ELSE IF BitLength(a) <= MantissaBits
    THEN [m |-> ShiftLeft(a, MantissaBits - BitLength(a)),
          e |-> e - (MantissaBits - BitLength(a))]
    ELSE [m |-> ShiftRight(a, BitLength(a) - MantissaBits).q,
          e |-> e + BitLength(a) - MantissaBits]

\* the Number nearest to a * 2^e (or to a value strictly between that and
\* (a + 1) * 2^e, when inexact, for a longer than the significand)
ToNumber64(a, e, inexact) ==
    IF a = <<>> THEN Zero64
    ELSE IF BitLength(a) <= MantissaBits
    THEN [m |-> ShiftLeft(a, MantissaBits - BitLength(a)),
          e |-> e - (MantissaBits - BitLength(a))]
    ELSE LET r == RoundBits(a, MantissaBits, inexact)
         IN IF BitLength(r) > MantissaBits
            THEN [m |-> ShiftRight(r, 1).q, e |-> e + BitLength(a) - MantissaBits + 1]
            ELSE [m |-> r, e |-> e + BitLength(a) - MantissaBits]

\* x + y of two Numbers
Add64(x, y) ==
    IF x = Zero64 THEN y
    ELSE IF y = Zero64 THEN x
    ELSE LET e == IF x.e < y.e THEN x.e ELSE y.e
         IN ToNumber64(AddLong(ShiftLeft(x.m, x.e - e), ShiftLeft(y.m, y.e - e)),
                       e, FALSE)

\* the Number nearest to num / 10^p, num a long integer
DecimalToNumber64(num, p) ==
    LET k == IF BitLength(num) >= 4 * p + 56 THEN 0 ELSE 4 * p + 56 - BitLength(num)
        d == DivPow10(ShiftLeft(num, k), p)
    IN ToNumber64(d.q, 0 - k, d.inexact)



JSONNumber(literal) ==
    LET digits == SelectSeq(literal, LAMBDA c : c # ".")
        fraction ==
            IF \E i \in 1..Len(literal) : literal[i] = "."
            THEN Len(literal) - (CHOOSE i \in 1..Len(literal) : literal[i] = ".")
            ELSE 0
    IN DecimalToNumber64(FromNat(DigitsToNumber(digits)), fraction)

\* the integer nearest to x * 10^p, as a long integer
NearestScaled(x, p) ==
    LET a == TimesPow10(x.m, p)
    IN IF x.e >= 0 THEN ShiftLeft(a, x.e)
       ELSE IF BitLength(a) + x.e < 0 THEN <<>>
       ELSE RoundBits(a, BitLength(a) + x.e, FALSE)

MaxFractionDigits == 20 \* decimals tried when printing a Number

\* the least number of decimals whose nearest decimal reads back as x
RECURSIVE ShortestFraction(_, _)
ShortestFraction(x, p) ==
    IF p >= MaxFractionDigits \/ DecimalToNumber64(NearestScaled(x, p), p) = x
    THEN p
    ELSE ShortestFraction(x, p + 1)


\* the decimal digits of a long integer, four at a time
RECURSIVE DecimalDigits(_)
DecimalDigits(a) ==
    IF a = <<>> THEN <<>>
    ELSE LET d == DivSmall(a, 10000)
             q == StripZeros(d.q)
             four(n) ==
                 <<DigitOf[(n \div 1000) + 1], DigitOf[((n \div 100) % 10) + 1],
                   DigitOf[((n \div 10) % 10) + 1], DigitOf[(n % 10) + 1]>>
         IN IF q = <<>> THEN NumberToString(d.r)
            ELSE DecimalDigits(q) \o four(d.r)

\* Number::toString(x) for 1e-6 <= x < 1e21 and for 0: the shortest decimal
\* that reads back as x
Number64ToString(x) ==
    IF x = Zero64 THEN <<"0">>
    ELSE LET p == ShortestFraction(x, 0)
             ds == DecimalDigits(NearestScaled(x, p))
             n == Len(ds)
         IN IF p = 0 THEN ds
            ELSE IF n > p
            THEN SubSeq(ds, 1, n - p) \o <<".">> \o SubSeq(ds, n - p + 1, n)
            ELSE <<"0", ".">> \o [i \in 1..(p - n) |-> "0"] \o ds

----------------------------------------------------------------------------
(* JSON.parse on the text of employees.json *)

KeyActive == <<"a", "c", "t", "i", "v", "e">>
KeySocialSecurity ==
    <<"s", "o", "c", "i", "a", "l", "S", "e", "c", "u", "r", "i", "t", "y">>
KeyFirstName == <<"f", "i", "r", "s", "t", "N", "a", "m", "e">>
KeyLastName == <<"l", "a", "s", "t", "N", "a", "m", "e">>
KeyPay == <<"p", "a", "y">>


RECURSIVE SkipWs(_, _)
SkipWs(s, i) ==
    IF i <= Len(s) /\ s[i] \in {" ", "\n"} THEN SkipWs(s, i + 1) ELSE i

\* first position at or after i whose character is in (resp. not in) cs
RECURSIVE ScanTo(_, _, _)
ScanTo(s, i, cs) ==
    IF i > Len(s) \/ s[i] \in cs THEN i ELSE ScanTo(s, i + 1, cs)

RECURSIVE ScanPast(_, _, _)
ScanPast(s, i, cs) ==
    IF i > Len(s) \/ s[i] \notin cs THEN i ELSE ScanPast(s, i + 1, cs)

\* a string literal starting at the quote s[i]
ParseString(s, i) ==
    LET j == ScanTo(s, i + 1, {"\""})
    IN [v |-> SubSeq(s, i + 1, j - 1), next |-> j + 1]


RECURSIVE ParseValue(_, _)
RECURSIVE ParseElements(_, _, _)
RECURSIVE ParseMembers(_, _, _)

\* the elements of an array from position i on, after those in acc
ParseElements(s, i, acc) ==
    LET e == ParseValue(s, i)
        j == SkipWs(s, e.next)
    IN IF s[j] = ","
       THEN ParseElements(s, j + 1, Append(acc, e.v))
       ELSE [v |-> Append(acc, e.v), next |-> j + 1]

\* the members of an object from position i on, after those in acc
ParseMembers(s, i, acc) ==
    LET k == ParseString(s, SkipWs(s, i))
        c == SkipWs(s, k.next)
        e == ParseValue(s, c + 1)
        j == SkipWs(s, e.next)
        member == [key |-> k.v, value |-> e.v]
    IN IF s[j] = ","
       THEN ParseMembers(s, j + 1, Append(acc, member))
       ELSE [v |-> Append(acc, member), next |-> j + 1]

ParseValue(s, i0) ==
    LET i == SkipWs(s, i0)
    IN CASE s[i] = "[" ->
               IF s[SkipWs(s, i + 1)] = "]"
               THEN [v |-> <<>>, next |-> SkipWs(s, i + 1) + 1]
               ELSE ParseElements(s, i + 1, <<>>)
         [] s[i] = "{" ->
               IF s[SkipWs(s, i + 1)] = "}"
               THEN [v |-> <<>>, next |-> SkipWs(s, i + 1) + 1]
               ELSE ParseMembers(s, i + 1, <<>>)
         [] s[i] = "\"" -> ParseString(s, i)
         [] s[i] = "t" -> [v |-> TRUE, next |-> i + 4]
         [] s[i] = "f" -> [v |-> FALSE, next |-> i + 5]
         [] s[i] \in Digits ->
               [v |-> DigitsToNumber(SubSeq(s, i, ScanPast(s, i, Digits) - 1)),
                next |-> ScanPast(s, i, Digits)]

\* obj[key] on a parsed object
Member(obj, key) ==
    obj[CHOOSE m \in 1..Len(obj) : obj[m].key = key].value


JSONParse(s) ==
    LET parsed == ParseValue(s, 1).v
    IN [i \in 1..Len(parsed) |->
           [active |-> Member(parsed[i], KeyActive),
            socialSecurity |-> Member(parsed[i], KeySocialSecurity),
            firstName |-> Member(parsed[i], KeyFirstName),
            lastName |-> Member(parsed[i], KeyLastName),
            pay |-> Member(parsed[i], KeyPay)]]

----------------------------------------------------------------------------
(* The content of employees.json *)


RECURSIVE JoinWith(_, _)
JoinWith(texts, sep) ==
    IF texts = <<>> THEN <<>>
    ELSE IF Len(texts) = 1 THEN texts[1]
    ELSE texts[1] \o sep \o JoinWith(Tail(texts), sep)


EmployeeText(e) ==
    LET Quoted(s) == <<"\"">> \o s \o <<"\"">>
        MemberText(key, valueText) == Quoted(key) \o <<":", " ">> \o valueText
    IN
    <<"{">> \o
    JoinWith(<< MemberText(KeyActive,
                           IF e.active THEN <<"t", "r", "u", "e">>
                                       ELSE <<"f", "a", "l", "s", "e">>),
                MemberText(KeySocialSecurity, Quoted(e.socialSecurity)),
                MemberText(KeyFirstName, Quoted(e.firstName)),
                MemberText(KeyLastName, Quoted(e.lastName)),
                MemberText(KeyPay,
                           <<"[">> \o
                           JoinWith([k \in 1..Len(e.pay) |-> NumberToString(e.pay[k])],
                                    <<",">>)
                           \o <<"]">>) >>,
             <<",", "\n">>)
    \o <<"}">>

EmployeesText(arr) ==
    <<"[">> \o JoinWith([k \in 1..Len(arr) |-> EmployeeText(arr[k])], <<",", "\n">>)
    \o <<"]">>

----------------------------------------------------------------------------
(* JSONtoTable, join("\n") and toHTML *)

StringCell(s) == [type |-> "string", text |-> s, value |-> 0]
NumberCell(n) == [type |-> "number", text |-> <<>>, value |-> n]

\* a cell holding a Number with a fraction
Number64Cell(x) == [type |-> "number64", text |-> <<>>, value |-> x]

\* String(cell), as join and the template literals apply it
ToStr(cell) ==
    IF cell.type = "number" THEN NumberToString(cell.value)
    ELSE IF cell.type = "number64" THEN Number64ToString(cell.value)
    ELSE cell.text

HeaderLastName == StringCell(<<"L", "a", "s", "t", " ", "N", "a", "m", "e">>)
HeaderFirstName == StringCell(<<"F", "i", "r", "s", "t", " ", "N", "a", "m", "e">>)
HeaderTotalPay == StringCell(<<"T", "o", "t", "a", "l", " ", "P", "a", "y">>)
HeaderSocialSecurityNumber ==
    StringCell(<<"S", "o", "c", "i", "a", "l", " ", "S", "e", "c", "u",
                 "r", "i", "t", "y", " ", "N", "u", "m", "b", "e", "r">>)

JSONtoTableHeader ==
    <<HeaderLastName, HeaderFirstName, HeaderTotalPay, HeaderSocialSecurityNumber>>

\* x.pay.reduce((acc, curr) => acc + curr) on a non-empty pay array
RECURSIVE ReducePay(_)
ReducePay(pay) ==
    IF Len(pay) = 1 THEN pay[1]
    ELSE ReducePay(SubSeq(pay, 1, Len(pay) - 1)) + pay[Len(pay)]

\* reduce without an initial value throws a TypeError on an empty array
JSONtoTableThrows(employees) ==
    \E i \in 1..Len(employees) : employees[i].pay = <<>>


JSONtoTable(employees) ==
    <<JSONtoTableHeader>> \o
    [i \in 1..Len(employees) |->
        <<StringCell(employees[i].lastName), StringCell(employees[i].firstName),
          StringCell(employees[i].socialSecurity),
          NumberCell(ReducePay(employees[i].pay))>>]

\* String(row) of an array: its elements joined by ","
RowToString(row) == JoinWith([k \in 1..Len(row) |-> ToStr(row[k])], <<",">>)

\* every row followed by a line break instead of rows separated by one
JoinNewlineTrailing(tableData) ==
    Concat([r \in 1..Len(tableData) |-> RowToString(tableData[r]) \o <<"\n">>])

\* join("\n")(table): table.join("\n")
JoinNewline(tableData) ==
    JoinWith([r \in 1..Len(tableData) |-> RowToString(tableData[r])], <<"\n">>)

\* the header labels wrapped like data cells
ThAsTd(heading) == <<"<", "t", "d", ">">> \o ToStr(heading) \o <<"<", "/", "t", "d", ">">>
Th(heading) == <<"<", "t", "h", ">">> \o ToStr(heading) \o <<"<", "/", "t", "h", ">">>
Td(data) == <<"<", "t", "d", ">">> \o ToStr(data) \o <<"<", "/", "t", "d", ">">>
Tr(cells) == <<"<", "t", "r", ">">> \o cells \o <<"<", "/", "t", "r", ">">>

toHTML(tableData) ==
    LET headerRow ==
            Tr(Concat([k \in 1..Len(tableData[1]) |-> Th(tableData[1][k])]))
        rest == SubSeq(tableData, 2, Len(tableData))
        dataRows ==
            Concat([r \in 1..Len(rest) |->
                       Tr(Concat([k \in 1..Len(rest[r]) |-> Td(rest[r][k])]))])
    IN <<"\n", " ", " ", "<", "t", "a", "b", "l", "e", ">", "\n", " ", " ",
         " ", " ", "<", "t", "h", "e", "a", "d", ">", "\n", " ", " ", " ",
         " ", " ", " ">>
       \o headerRow \o
       <<"\n", " ", " ", " ", " ", "<", "/", "t", "h", "e", "a", "d", ">",
         "\n", " ", " ", " ", " ", "<", "t", "b", "o", "d", "y", ">", "\n",
         " ", " ", " ", " ", " ", " ">>
       \o dataRows \o
       <<"\n", " ", " ", " ", " ", "<", "/", "t", "b", "o", "d", "y", ">",
         "\n", " ", " ", "<", "/", "t", "a", "b", "l", "e", ">">>

----------------------------------------------------------------------------
(* employeesToCSV and employeesToHTML on the content of employees.json *)

MaxFileLen == 3        \* employee records in employees.json

EmployeeMary ==
    [active |-> TRUE,
     socialSecurity |-> <<"5", "8", "7", "-", "4", "5", "-", "6", "3", "2", "2">>,
     firstName |-> <<"M", "a", "r", "y">>, lastName |-> <<"J", "a", "n", "e">>, pay |-> <<12, 11, 20>>]

EmployeeJohn ==
    [active |-> TRUE,
     socialSecurity |-> Ssn165,
     firstName |-> <<"J", "o", "h", "n">>, lastName |-> <<"D", "o", "e">>, pay |-> <<8, 7>>]

EmployeeRobert ==
    [active |-> FALSE,
     socialSecurity |-> <<"2", "0", "3", "-", "9", "8", "-", "7", "8", "9", "9">>,
     firstName |-> <<"R", "o", "b", "e", "r", "t">>, lastName |-> <<"B", "r", "o", "w", "n">>, pay |-> <<123, 100, 1234>>]

\* an inactive namesake of an active employee
EmployeeJohnInactive ==
    [active |-> FALSE,
     socialSecurity |-> <<"1", "6", "5", "-", "0", "2", "-", "2", "5", "8", "9">>,
     firstName |-> <<"J", "o", "h", "n">>, lastName |-> <<"D", "o", "e">>, pay |-> <<>>]

\* an active employee who was never paid
EmployeeUnpaid ==
    [active |-> TRUE,
     socialSecurity |-> <<"3", "1", "1", "-", "2", "2", "-", "4", "0", "0", "4">>,
     firstName |-> <<"A", "n", "n">>, lastName |-> <<"D", "o", "e">>, pay |-> <<>>]

FileEmployees ==
    {EmployeeMary, EmployeeJohn, EmployeeRobert, EmployeeJohnInactive, EmployeeUnpaid}

FileArrays == UNION { [1..n -> FileEmployees] : n \in 0..MaxFileLen }

InitPipeline ==
    /\ pc = "start"
    /\ fileEmployees \in FileArrays
    /\ str = EmployeesText(fileEmployees)
    /\ outs = <<>>
    /\ heap = <<>>
    /\ xs = "none"
    /\ xs0 = <<>>
    /\ order = "undefined"
    /\ ret = "none"
    /\ table = <<>>
    /\ rendered = <<>>
    /\ now = 0
    /\ written = <<>>
    /\ objs = <<>>
    /\ calls = 0

\* censor(employeesStr)
PipeCensor ==
    /\ pc = "start"
    /\ outs' = <<censor(str)>>
    /\ pc' = "pipe:censored"
    /\ UNCHANGED <<str, arrayVars, pipeVars, envVars>>

\* JSON.parse composed to the right of censor: it is given the raw text
PipeParseBeforeCensor ==
    /\ pc = "start"
    /\ heap' = Append(heap, JSONParse(str))
    /\ ret' = Len(heap) + 1
    /\ pc' = "pipe:parsed"
    /\ UNCHANGED <<textVars, xs, xs0, order, pipeVars, envVars, objs>>

\* JSON.parse builds a new array
PipeParse ==
    /\ pc = "pipe:censored"
    /\ heap' = Append(heap, JSONParse(outs[1]))
    /\ ret' = Len(heap) + 1
    /\ pc' = "pipe:parsed"
    /\ UNCHANGED <<textVars, xs, xs0, order, pipeVars, envVars, objs>>

\* filter((x) => x.active) builds a new array
PipeFilter ==
    /\ pc = "pipe:parsed"
    /\ xs' = ret
    /\ heap' = Append(heap, FilterActive(heap[ret]))
    /\ ret' = Len(heap) + 1
    /\ pc' = "pipe:filtered"
    /\ UNCHANGED <<textVars, xs0, order, pipeVars, envVars, objs>>

\* sortByLastName sorts the array it is given and returns it
PipeSort ==
    /\ pc = "pipe:filtered"
    /\ xs' = ret
    /\ heap' = [heap EXCEPT ![ret] = ArraySort(heap[ret], "none")]
    /\ pc' = "pipe:sorted"
    /\ UNCHANGED <<textVars, xs0, order, ret, pipeVars, envVars, objs>>

\* JSONtoTable returns the table, or throws out of the composition
PipeTabulate ==
    /\ pc = "pipe:sorted"
    /\ IF JSONtoTableThrows(heap[ret])
       THEN pc' = "pipe:threw" /\ table' = table
       ELSE pc' = "pipe:tabulated" /\ table' = JSONtoTable(heap[ret])
    /\ UNCHANGED <<textVars, arrayVars, fileEmployees, rendered, envVars>>

\* employeesToCSV = compose(join("\n"), employeeJSONToTable)
PipeToCSV ==
    /\ pc = "pipe:tabulated"
    /\ rendered' = JoinNewline(table)
    /\ pc' = "pipe:csv"
    /\ UNCHANGED <<textVars, arrayVars, fileEmployees, table, envVars>>

\* employeesToHTML = compose(toHTML, employeeJSONToTable)
PipeToHTML ==
    /\ pc = "pipe:tabulated"
    /\ rendered' = toHTML(table)
    /\ pc' = "pipe:html"
    /\ UNCHANGED <<textVars, arrayVars, fileEmployees, table, envVars>>

NextPipeline ==
    \/ PipeCensor
    \/ PipeParse
    \/ PipeFilter
    \/ PipeSort
    \/ PipeTabulate
    \/ PipeToCSV
    \/ PipeToHTML

SpecPipeline == InitPipeline /\ [][NextPipeline]_vars

----------------------------------------------------------------------------
(* Claims about the whole composition *)

\* the form in which an employee's identifier reaches the report
Masked(e) == <<"x", "x", "x", "-", "x", "x", "-">> \o SubSeq(e.socialSecurity, 8, 11)

Occurrences(text, pat) ==
    Cardinality({i \in 1..(Len(text) - Len(pat) + 1) :
                    SubSeq(text, i, i + Len(pat) - 1) = pat})

\* rows the report owes to employee e: one per active occurrence in the file
RowsOwed(e) == IF e.active THEN Count(fileEmployees, e) ELSE 0

TableRowsOf(e) ==
    {r \in 2..Len(table) :
        /\ table[r][1].text = e.lastName
        /\ table[r][2].text = e.firstName
        /\ table[r][3].text = Masked(e)}

CsvLineStart(e) ==
    e.lastName \o <<",">> \o e.firstName \o <<",">> \o Masked(e) \o <<",">>

HtmlRowStart(e) ==
    <<"<", "t", "r", ">">> \o Td(StringCell(e.lastName))
    \o Td(StringCell(e.firstName)) \o Td(StringCell(Masked(e)))

\* C1: the table and the CSV / HTML text produced by the full pipeline hold
\* no row derived from a record whose active flag is false and one row for
\* every record whose active flag is true.
C1_OnlyActiveEmployeesReported ==
    /\ pc \in {"pipe:tabulated", "pipe:csv", "pipe:html"} =>
          /\ Len(table) = 1 + Cardinality(ActiveIndices(fileEmployees))
          /\ \A e \in FileEmployees : Cardinality(TableRowsOf(e)) = RowsOwed(e)
    /\ pc = "pipe:csv" =>
          /\ Occurrences(rendered, <<"\n">>) = Cardinality(ActiveIndices(fileEmployees))
          /\ \A e \in FileEmployees :
                Occurrences(rendered, CsvLineStart(e)) = RowsOwed(e)
    /\ pc = "pipe:html" =>
          /\ Occurrences(rendered, <<"<", "t", "r", ">">>)
                = 1 + Cardinality(ActiveIndices(fileEmployees))
          /\ \A e \in FileEmployees :
                Occurrences(rendered, HtmlRowStart(e)) = RowsOwed(e)

\* the CSV report of a file holding an inactive employee between two active
\* ones has been rendered
C1_Witness ==
    /\ pc = "pipe:csv"
    /\ fileEmployees = <<EmployeeMary, EmployeeRobert, EmployeeJohn>>
    /\ Len(table) = 3
    /\ Occurrences(rendered, CsvLineStart(EmployeeRobert)) = 0
    /\ Occurrences(rendered, CsvLineStart(EmployeeJohn)) = 1

----------------------------------------------------------------------------
(* The tabulators: makeTable, makeEmployeeSummaryTable, parse *)


\* [["Last Name", "First Name"]] of makeTable, of the class hierarchy's
\* makeEmployeeSummaryTable and of parse
TwoLabelHeader == <<HeaderLastName, HeaderFirstName>>

\* the header of the monolithic makeEmployeeSummaryTable
SummaryHeader ==
    <<HeaderLastName, HeaderFirstName,
      StringCell(<<"T", "o", "t", "a", "l", " ", "S", "a", "l", "a", "r", "y">>)>>

\* the header of the makeEmployeeSummaryTable with the identifier column
SummaryHeaderWithSocialSecurity ==
    <<HeaderLastName, HeaderFirstName,
      StringCell(<<"S", "o", "c", "i", "a", "l", " ", "S", "e", "c", "u", "r", "i", "t", "y">>),
      StringCell(<<"T", "o", "t", "a", "l", " ", "S", "a", "l", "a", "r", "y">>)>>

\* e.pay.reduce without an initial value throws on an empty array
makeTableThrows(employees) ==
    \E i \in 1..Len(employees) : employees[i].pay = <<>>

makeTable(employees) ==
    <<TwoLabelHeader>> \o
    [i \in 1..Len(employees) |->
        <<StringCell(employees[i].lastName), StringCell(employees[i].firstName),
          NumberCell(ReducePay(employees[i].pay))>>]

\* the accumulator loop with j starting at 1 instead of 0
RECURSIVE LoopTotalFromSecond(_)
LoopTotalFromSecond(pay) ==
    IF Len(pay) <= 1 THEN 0
    ELSE LoopTotalFromSecond(SubSeq(pay, 1, Len(pay) - 1)) + pay[Len(pay)]

\* let employeeTotal = 0; for (j ...) employeeTotal += employee.pay[j]
RECURSIVE LoopTotal(_)
LoopTotal(pay) ==
    IF pay = <<>> THEN 0
    ELSE LoopTotal(SubSeq(pay, 1, Len(pay) - 1)) + pay[Len(pay)]

SummaryRow(employee) ==
    <<StringCell(employee.lastName), StringCell(employee.firstName),
      NumberCell(LoopTotal(employee.pay))>>


\* the loop without the test of employee.active
SummaryRowsOfAll(employees) ==
    [i \in 1..Len(employees) |-> SummaryRow(employees[i])]

\* the rows the loop pushes: one per employee passing `if (employee.active)`
RECURSIVE SummaryRows(_)
SummaryRows(employees) ==
    IF employees = <<>> THEN <<>>
    ELSE IF Head(employees).active
         THEN <<SummaryRow(Head(employees))>> \o SummaryRows(Tail(employees))
         ELSE SummaryRows(Tail(employees))

RECURSIVE SummaryRowsWithSocialSecurity(_)
SummaryRowsWithSocialSecurity(employees) ==
    IF employees = <<>> THEN <<>>
    ELSE IF Head(employees).active
         THEN << <<StringCell(Head(employees).lastName),
                   StringCell(Head(employees).firstName),
                   StringCell(Head(employees).socialSecurity),
                   NumberCell(LoopTotal(Head(employees).pay))>> >>
              \o SummaryRowsWithSocialSecurity(Tail(employees))
         ELSE SummaryRowsWithSocialSecurity(Tail(employees))

\* SalaryReporter.makeEmployeeSummaryTable of the monolithic class
makeEmployeeSummaryTable(employees) ==
    <<SummaryHeader>> \o SummaryRows(employees)

\* makeEmployeeSummaryTable of the classes that report the identifier
makeEmployeeSummaryTableSS(employees) ==
    <<SummaryHeaderWithSocialSecurity>> \o SummaryRowsWithSocialSecurity(employees)

\* makeEmployeeSummaryTable of the class hierarchy
makeEmployeeSummaryTableH(employees) ==
    <<TwoLabelHeader>> \o SummaryRows(employees)

\* SalaryReporter.parse on empty parsedData: a row for every element of data
parse(data) ==
    <<TwoLabelHeader>> \o [i \in 1..Len(data) |-> SummaryRow(data[i])]

----------------------------------------------------------------------------
(* Calling a tabulator on an array of employees *)



TabArrays ==
    LET employees ==
            { [active |-> a,
               socialSecurity |-> Ssn165,
               firstName |-> <<"J">>,
               lastName |-> l,
               pay |-> p] : a \in BOOLEAN, l \in { <<"A">>, <<"B">> },
                            p \in { <<>>, <<7>>, <<1, 2, 4>> } }
    IN UNION { [1..n -> employees] : n \in 0..MaxLen }

InitTabulate ==
    /\ pc = "start"
    /\ str = <<>>
    /\ outs = <<>>
    /\ \E arr \in TabArrays : heap = <<arr>> /\ xs0 = arr
    /\ xs = 1
    /\ order = "undefined"
    /\ ret = "none"
    /\ fileEmployees = <<>>
    /\ table = <<>>
    /\ rendered = <<>>
    /\ now = 0
    /\ written = <<>>
    /\ objs = <<>>
    /\ calls = 0

CallMakeTable ==
    /\ pc = "start"
    /\ IF makeTableThrows(heap[xs])
       THEN pc' = "threw:makeTable" /\ table' = table
       ELSE pc' = "makeTable" /\ table' = makeTable(heap[xs])
    /\ UNCHANGED <<textVars, arrayVars, fileEmployees, rendered, envVars>>

CallJSONtoTable ==
    /\ pc = "start"
    /\ IF JSONtoTableThrows(heap[xs])
       THEN pc' = "threw:JSONtoTable" /\ table' = table
       ELSE pc' = "JSONtoTable" /\ table' = JSONtoTable(heap[xs])
    /\ UNCHANGED <<textVars, arrayVars, fileEmployees, rendered, envVars>>

CallMakeEmployeeSummaryTable ==
    /\ pc = "start"
    /\ table' = makeEmployeeSummaryTable(heap[xs])
    /\ pc' = "makeEmployeeSummaryTable"
    /\ UNCHANGED <<textVars, arrayVars, fileEmployees, rendered, envVars>>

CallMakeEmployeeSummaryTableSS ==
    /\ pc = "start"
    /\ table' = makeEmployeeSummaryTableSS(heap[xs])
    /\ pc' = "makeEmployeeSummaryTableSS"
    /\ UNCHANGED <<textVars, arrayVars, fileEmployees, rendered, envVars>>

CallMakeEmployeeSummaryTableH ==
    /\ pc = "start"
    /\ table' = makeEmployeeSummaryTableH(heap[xs])
    /\ pc' = "makeEmployeeSummaryTableH"
    /\ UNCHANGED <<textVars, arrayVars, fileEmployees, rendered, envVars>>

CallParse ==
    /\ pc = "start"
    /\ table' = parse(heap[xs])
    /\ pc' = "parse"
    /\ UNCHANGED <<textVars, arrayVars, fileEmployees, rendered, envVars>>

\* SalaryReporter.parse() called again on a constructed instance: this.data
\* is heap[xs], this.parsedData is table

\* parse() without the test of this.parsedData.length, pushing onto the
\* rows already there
parseAppending(parsedData, data) ==
    IF Len(parsedData) = 0 THEN parse(data) ELSE parsedData \o Tail(parse(data))

\* parse(): if (this.parsedData.length === 0) { ... }
parseIfEmpty(parsedData, data) ==
    IF Len(parsedData) = 0 THEN parse(data) ELSE parsedData

\* new SalaryReporter(inPath): this.parsedData = []; this.parse()
NewParser ==
    /\ pc = "start"
    /\ table' = parseIfEmpty(<<>>, heap[xs])
    /\ pc' = "parser:constructed"
    /\ UNCHANGED <<textVars, arrayVars, fileEmployees, rendered, envVars>>

\* salaryReporter.parse(), which returns this
CallParseAgain ==
    /\ pc \in {"parser:constructed", "parser:parsed"}
    /\ calls < MaxCalls
    /\ table' = parseIfEmpty(table, heap[xs])
    /\ ret' = "this"
    /\ calls' = calls + 1
    /\ pc' = "parser:parsed"
    /\ UNCHANGED <<textVars, heap, objs, xs, xs0, order, fileEmployees, rendered,
                   now, written>>

NextTabulate ==
    \/ CallMakeTable
    \/ CallJSONtoTable
    \/ CallMakeEmployeeSummaryTable
    \/ CallMakeEmployeeSummaryTableSS
    \/ CallMakeEmployeeSummaryTableH
    \/ CallParse
    \/ NewParser
    \/ CallParseAgain

SpecTabulate == InitTabulate /\ [][NextTabulate]_vars

----------------------------------------------------------------------------
(* Claims about the tabulators *)

FunctionalCalled ==
    pc \in {"makeTable", "JSONtoTable", "threw:makeTable", "threw:JSONtoTable"}

TableReturned ==
    pc \in {"makeTable", "JSONtoTable", "makeEmployeeSummaryTable",
            "makeEmployeeSummaryTableSS", "makeEmployeeSummaryTableH", "parse"}

\* the tabulators that push a row only for an active employee
FilteringTabulator ==
    pc \in {"makeEmployeeSummaryTable", "makeEmployeeSummaryTableSS",
            "makeEmployeeSummaryTableH"}

\* the input record that data row r of the returned table was built from
RecordOfRow(r) ==
    IF FilteringTabulator THEN xs0[KthActive(xs0, r - 1)] ELSE xs0[r - 1]

\* C11: for every sequence of n records, n = 0 included, makeTable and
\* JSONtoTable return a table of exactly n + 1 rows whose first row is the
\* header and whose row i + 1 is built from input record i.
C11_FunctionalTableHasHeaderAndRowPerRecord ==
    FunctionalCalled =>
        /\ pc \in {"makeTable", "JSONtoTable"}
        /\ Len(table) = Len(xs0) + 1
        /\ table[1] = (IF pc = "makeTable" THEN TwoLabelHeader ELSE JSONtoTableHeader)
        /\ \A i \in 1..Len(xs0) :
              /\ table[i + 1][1] = StringCell(xs0[i].lastName)
              /\ table[i + 1][2] = StringCell(xs0[i].firstName)

\* C12: in every table a tabulator returns, every data row has exactly as
\* many cells as the header row.
C12_RowsHaveHeaderArity ==
    TableReturned =>
        \A r \in 2..Len(table) : Len(table[r]) = Len(table[1])

\* the arithmetic sum of a sequence of numbers
RECURSIVE SumOf(_)
SumOf(ns) == IF ns = <<>> THEN 0 ELSE Head(ns) + SumOf(Tail(ns))

\* C13: in every table produced by JSONtoTable, the cell under the total-pay
\* label is the summed pay and the cell under the social-security label is
\* the identifier.
C13_CellsUnderTheirLabels ==
    pc = "JSONtoTable" =>
        \A r \in 2..Len(table) : \A k \in 1..Len(table[1]) :
            /\ table[1][k] = HeaderTotalPay =>
                  table[r][k] = NumberCell(SumOf(xs0[r - 1].pay))
            /\ table[1][k] = HeaderSocialSecurityNumber =>
                  table[r][k] = StringCell(xs0[r - 1].socialSecurity)
            /\ table[1][k] = HeaderLastName =>
                  table[r][k] = StringCell(xs0[r - 1].lastName)
            /\ table[1][k] = HeaderFirstName =>
                  table[r][k] = StringCell(xs0[r - 1].firstName)

C23_RowForEveryEmployee ==
    FilteringTabulator =>
        /\ Len(table) = Len(xs0) + 1
        /\ \A i \in 1..Len(xs0) :
              /\ table[i + 1][1] = StringCell(xs0[i].lastName)
              /\ table[i + 1][Len(table[i + 1])] = NumberCell(SumOf(xs0[i].pay))

\* C23 amended: makeEmployeeSummaryTable of the class variants does not
\* reorder but does select: it emits one row for every employee held in
\* this.employees whose active flag is true, in the stored order, and no row
\* for an employee whose active flag is false.
C23_RowForEveryActiveEmployee ==
    FilteringTabulator =>
        /\ Len(table) = Cardinality(ActiveIndices(xs0)) + 1
        /\ \A k \in 1..Cardinality(ActiveIndices(xs0)) :
              /\ table[k + 1][1] = StringCell(xs0[KthActive(xs0, k)].lastName)
              /\ table[k + 1][2] = StringCell(xs0[KthActive(xs0, k)].firstName)
              /\ table[k + 1][Len(table[k + 1])] =
                     NumberCell(SumOf(xs0[KthActive(xs0, k)].pay))

\* the monolithic tabulator has been given an inactive employee between two
\* active ones that differ, and has returned two rows
C23_Witness ==
    /\ pc = "makeEmployeeSummaryTable"
    /\ Len(xs0) = 3
    /\ xs0[1].active /\ ~xs0[2].active /\ xs0[3].active
    /\ xs0[1].lastName # xs0[3].lastName
    /\ xs0[1].pay # xs0[3].pay
    /\ Len(table) = 3

\* C26: the procedural tabulator (makeEmployeeSummaryTable, with its
\* accumulator loops) and the functional tabulator (JSONtoTable, with map and
\* reduce) return the same data rows for every sequence of active employees,
\* including an employee whose pay sequence is empty.
C26_ProceduralAndFunctionalRowsAgree ==
    /\ (pc \in {"JSONtoTable", "threw:JSONtoTable"}
        /\ \A i \in 1..Len(xs0) : xs0[i].active)
          => /\ pc = "JSONtoTable"
             /\ Tail(table) = Tail(makeEmployeeSummaryTableSS(xs0))
    /\ (pc = "makeEmployeeSummaryTableSS"
        /\ \A i \in 1..Len(xs0) : xs0[i].active)
          => /\ ~JSONtoTableThrows(xs0)
             /\ Tail(table) = Tail(JSONtoTable(xs0))

\* C25: parse() parses only once: after construction, any number of further
\* parse() calls leaves parsedData the header followed by exactly one row per
\* employee, and each call returns the same instance.
C25_ParseOnlyOnce ==
    pc \in {"parser:constructed", "parser:parsed"} =>
        /\ Len(table) = Len(xs0) + 1
        /\ table[1] = TwoLabelHeader
        /\ \A i \in 1..Len(xs0) :
              table[i + 1] = <<StringCell(xs0[i].lastName), StringCell(xs0[i].firstName),
                               NumberCell(SumOf(xs0[i].pay))>>
        /\ pc = "parser:parsed" => ret = "this"

\* parse() has been called twice on an instance constructed from three
\* employees
C25_Witness ==
    /\ pc = "parser:parsed"
    /\ calls >= 2
    /\ Len(xs0) = 3
    /\ Len(table) = 4

----------------------------------------------------------------------------
(* Claims about the renderers *)

Positions(text, pat) ==
    {i \in 1..(Len(text) - Len(pat) + 1) : SubSeq(text, i, i + Len(pat) - 1) = pat}

\* the k-th smallest element of a set of positions
KthPosition(S, k) == CHOOSE p \in S : Cardinality({q \in S : q < p}) = k - 1

\* text.split(sep) for a separator of one character
Split(text, sep) ==
    LET ps == Positions(text, <<sep>>)
        n == Cardinality(ps) + 1
        from(k) == IF k = 1 THEN 1 ELSE KthPosition(ps, k - 1) + 1
        to(k) == IF k = n THEN Len(text) ELSE KthPosition(ps, k) - 1
    IN [k \in 1..n |-> SubSeq(text, from(k), to(k))]

HeaderLine ==
    <<"L", "a", "s", "t", " ", "N", "a", "m", "e", ",", "F", "i", "r", "s", "t", " ", "N", "a", "m", "e", ",", "T", "o", "t", "a", "l", " ", "P", "a", "y", ",", "S", "o", "c", "i", "a", "l", " ", "S", "e", "c", "u", "r", "i", "t", "y", " ", "N", "u", "m", "b", "e", "r">>

\* C15: the CSV text holds the rows in table order, the cells of a row
\* joined by "," and the rows separated by exactly one line break, with no
\* leading or trailing line break; a header-only table renders as the header
\* line alone.
C15_CsvIsRowsJoinedByNewline ==
    pc = "pipe:csv" =>
        LET lines == Split(rendered, "\n")
        IN /\ Len(lines) = Len(table)
           /\ \A r \in 1..Len(table) :
                 LET cells == Split(lines[r], ",")
                 IN /\ Len(cells) = Len(table[r])
                    /\ \A k \in 1..Len(table[r]) : cells[k] = ToStr(table[r][k])
           /\ rendered # <<>>
           /\ rendered[1] # "\n"
           /\ rendered[Len(rendered)] # "\n"
           /\ Len(table) = 1 => rendered = HeaderLine

\* the CSV text of a table with two data rows has been produced
C15_Witness ==
    /\ pc = "pipe:csv"
    /\ Len(table) = 3
    /\ Len(Split(rendered, "\n")) = 3

OpenTag(name) == <<"<">> \o name \o <<">">>
CloseTag(name) == <<"<", "/">> \o name \o <<">">>

\* the contents of the elements <name>...</name> of a text, in text order
Elements(text, name) ==
    LET opens == Positions(text, OpenTag(name))
        closes == Positions(text, CloseTag(name))
        content(k) ==
            LET p == KthPosition(opens, k)
                c == CHOOSE q \in closes :
                        q > p /\ \A q2 \in closes : q2 > p => q <= q2
            IN SubSeq(text, p + Len(OpenTag(name)), c - 1)
    IN [k \in 1..Cardinality(opens) |-> content(k)]

TagTr == <<"t", "r">>
TagTh == <<"t", "h">>
TagTd == <<"t", "d">>

\* C16: the HTML text has exactly one <tr> per table row; the first wraps
\* each header label in <th> and every later one wraps each cell of its row
\* in <td>, rows and cells in table order.
C16_HtmlHasOneTrPerRow ==
    pc = "pipe:html" =>
        LET rows == Elements(rendered, TagTr)
        IN /\ Len(rows) = Len(table)
           /\ Cardinality(Positions(rendered, CloseTag(TagTr))) = Len(table)
           /\ Elements(rows[1], TagTh) = [k \in 1..Len(table[1]) |-> ToStr(table[1][k])]
           /\ Elements(rows[1], TagTd) = <<>>
           /\ \A r \in 2..Len(table) :
                 /\ Elements(rows[r], TagTd) = [k \in 1..Len(table[r]) |-> ToStr(table[r][k])]
                 /\ Elements(rows[r], TagTh) = <<>>

\* the HTML text of a table with two data rows has been produced
C16_Witness ==
    /\ pc = "pipe:html"
    /\ Len(table) = 3
    /\ Len(Elements(rendered, TagTr)) = 3

----------------------------------------------------------------------------
(* The reporter classes of salary-reporter-hierarchy.test.js *)

MaxClock == 2000       \* latest clock value, in milliseconds
TickMs == 500          \* time that passes in one step of the clock


\* String(new Date(ms)) in UTC, for a time within the first minute of the epoch
DateToString(ms) ==
    <<"T", "h", "u", " ", "J", "a", "n", " ", "0", "1", " ", "1", "9", "7",
      "0", " ", "0", "0", ":", "0", "0", ":">>
    \o <<DigitOf[(((ms \div 1000) % 60) \div 10) + 1],
         DigitOf[(((ms \div 1000) % 60) % 10) + 1]>> \o
    <<" ", "G", "M", "T", "+", "0", "0", "0", "0", " ", "(", "C", "o", "o",
      "r", "d", "i", "n", "a", "t", "e", "d", " ", "U", "n", "i", "v", "e",
      "r", "s", "a", "l", " ", "T", "i", "m", "e", ")">>

\* the text report() of SalaryHTMLReporter writes
HtmlReport(employeeSummaryTable, date) ==
    LET headerRow ==
            Tr(Concat([k \in 1..Len(employeeSummaryTable[1]) |->
                          Th(employeeSummaryTable[1][k])]))
        rest == SubSeq(employeeSummaryTable, 2, Len(employeeSummaryTable))
        dataRows ==
            Concat([r \in 1..Len(rest) |->
                       Tr(Concat([k \in 1..Len(rest[r]) |-> Td(rest[r][k])]))])
    IN <<"<", "h", "t", "m", "l", ">", "\n", " ", " ", " ", " ", "<", "h",
         "e", "a", "d", ">", "\n", " ", " ", " ", " ", " ", " ", "<", "t",
         "i", "t", "l", "e", ">", "E", "m", "p", "l", "o", "y", "e", "e",
         " ", "R", "e", "p", "o", "r", "t", ":", " ">>
       \o DateToString(date) \o
       <<"<", "/", "t", "i", "t", "l", "e", ">", "\n", " ", " ", " ", " ",
         "<", "/", "h", "e", "a", "d", ">", "\n", " ", " ", " ", " ", "<",
         "b", "o", "d", "y", ">", "\n", " ", " ", " ", " ", " ", " ", "<",
         "t", "a", "b", "l", "e", ">", "\n", " ", " ", " ", " ", " ", " ",
         " ", " ", "<", "t", "h", "e", "a", "d", ">", "\n", " ", " ", " ",
         " ", " ", " ", " ", " ", " ", " ">>
       \o headerRow \o
       <<"\n", " ", " ", " ", " ", " ", " ", " ", " ", "<", "/", "t", "h",
         "e", "a", "d", ">", "\n", " ", " ", " ", " ", " ", " ", " ", " ",
         "<", "t", "b", "o", "d", "y", ">", "\n", " ", " ", " ", " ", " ",
         " ", " ", " ", " ", " ">>
       \o dataRows \o
       <<"\n", " ", " ", " ", " ", " ", " ", " ", " ", "<", "/", "t", "b",
         "o", "d", "y", ">", "\n", " ", " ", " ", " ", " ", " ", "<", "/",
         "t", "a", "b", "l", "e", ">", "\n", " ", " ", " ", " ", "<", "/",
         "b", "o", "d", "y", ">", "\n", " ", " ", "<", "/", "h", "t", "m",
         "l", ">">>

InitHierarchy ==
    /\ pc = "start"
    /\ fileEmployees \in FileArrays
    /\ str = EmployeesText(fileEmployees)
    /\ outs = <<>>
    /\ heap = <<>>
    /\ xs = "none"
    /\ xs0 = <<>>
    /\ order = "undefined"
    /\ ret = "none"
    /\ table = <<>>
    /\ rendered = <<>>
    /\ now = 0
    /\ written = <<>>
    /\ objs = <<>>
    /\ calls = 0

\* new SalaryHTMLReporter(path): the inherited constructor
NewSalaryHTMLReporter ==
    /\ pc = "start"
    /\ heap' = <<JSONParse(str)>>
    /\ ret' = 1
    /\ table' = makeEmployeeSummaryTableH(JSONParse(str))
    /\ pc' = "html:constructed"
    /\ UNCHANGED <<textVars, xs, xs0, order, fileEmployees, rendered, envVars, objs>>

\* new SalaryCSVReporter(path): the inherited constructor
NewSalaryCSVReporter ==
    /\ pc = "start"
    /\ heap' = <<JSONParse(str)>>
    /\ ret' = 1
    /\ table' = makeEmployeeSummaryTableH(JSONParse(str))
    /\ pc' = "csv:constructed"
    /\ UNCHANGED <<textVars, xs, xs0, order, fileEmployees, rendered, envVars, objs>>

\* SalaryHTMLReporter.report(path): const date = new Date() reads the clock
ReportHTML ==
    /\ pc = "html:constructed"
    /\ Len(written) < MaxCalls
    /\ written' = Append(written, HtmlReport(table, now))
    /\ UNCHANGED <<pc, textVars, arrayVars, pipeVars, now, calls>>

\* SalaryCSVReporter.report(path)
ReportCSV ==
    /\ pc = "csv:constructed"
    /\ Len(written) < MaxCalls
    /\ written' = Append(written, JoinNewline(table))
    /\ UNCHANGED <<pc, textVars, arrayVars, pipeVars, now, calls>>

\* time passes
Tick ==
    /\ now + TickMs <= MaxClock
    /\ now' = now + TickMs
    /\ UNCHANGED <<pc, textVars, arrayVars, pipeVars, written, calls>>

NextHierarchy ==
    \/ NewSalaryHTMLReporter
    \/ NewSalaryCSVReporter
    \/ ReportHTML
    \/ ReportCSV
    \/ Tick

SpecHierarchy == InitHierarchy /\ [][NextHierarchy]_vars

\* C17: two HTML renderings of the same table are identical: the date in
\* the text comes only from the caller and the system clock is never read
\* inside the renderer.
C17_HtmlRenderingDeterministic ==
    (pc = "html:constructed" /\ Len(written) = 2) => written[1] = written[2]

----------------------------------------------------------------------------
(* addData: the sum of the number pairs of a CSV text *)

MaxLines == 3          \* lines in data.csv


\* the contents of data.csv: lines of a pair of integers each
DataFiles ==
    UNION { [1..n -> { <<1, 2>>, <<100, 0>>, <<1, 1>> }] : n \in 1..MaxLines }

DataText(lines) ==
    JoinWith([i \in 1..Len(lines) |->
                 NumberToString(lines[i][1]) \o <<",">> \o NumberToString(lines[i][2])],
             <<"\n">>)

\* parseInt of a text of decimal digits
parseInt(s) == DigitsToNumber(s)

\* parseInt(x) + parseInt(y) where [x, y] = line.split(",")
LineSum(line) ==
    LET cols == Split(line, ",") IN parseInt(cols[1]) + parseInt(cols[2])

\* reduce((acc, line) => acc + ..., 0) and the loop over all lines
RECURSIVE SumLines(_)
SumLines(lines) ==
    IF lines = <<>> THEN 0
    ELSE SumLines(SubSeq(lines, 1, Len(lines) - 1)) + LineSum(lines[Len(lines)])

\* addData of part_007 and of index.test.js
addData(s) == SumLines(Split(s, "\n"))

\* addData of index.js: `return ret` is inside the for loop
addDataIndexJs(data) ==
    LET line == Split(data, "\n")[1]
    IN IF line # <<>> THEN 0 + LineSum(line) ELSE 0

InitAddData ==
    /\ pc = "start"
    /\ \E lines \in DataFiles : str = DataText(lines)
    /\ outs = <<>>
    /\ heap = <<>>
    /\ xs = "none"
    /\ xs0 = <<>>
    /\ order = "undefined"
    /\ ret = "none"
    /\ fileEmployees = <<>>
    /\ table = <<>>
    /\ rendered = <<>>
    /\ now = 0
    /\ written = <<>>
    /\ objs = <<>>
    /\ calls = 0

\* part_007: addData(s)
CallAddDataReduce ==
    /\ pc = "start"
    /\ ret' = addData(str)
    /\ pc' = "addData:reduce"
    /\ UNCHANGED <<textVars, heap, xs, xs0, order, pipeVars, envVars, objs>>

\* index.test.js: addData(path) with the loop over lines.length
CallAddDataLoop ==
    /\ pc = "start"
    /\ ret' = addData(str)
    /\ pc' = "addData:loop"
    /\ UNCHANGED <<textVars, heap, xs, xs0, order, pipeVars, envVars, objs>>

\* index.js: addData(path)
CallAddDataIndexJs ==
    /\ pc = "start"
    /\ ret' = addDataIndexJs(str)
    /\ pc' = "addData:index.js"
    /\ UNCHANGED <<textVars, heap, xs, xs0, order, pipeVars, envVars, objs>>

NextAddData ==
    \/ CallAddDataReduce
    \/ CallAddDataLoop
    \/ CallAddDataIndexJs

SpecAddData == InitAddData /\ [][NextAddData]_vars

\* the pairs a data text was written from
LinesOf(text) == CHOOSE lines \in DataFiles : DataText(lines) = text

RECURSIVE PairTotal(_)
PairTotal(lines) ==
    IF lines = <<>> THEN 0
    ELSE Head(lines)[1] + Head(lines)[2] + PairTotal(Tail(lines))

\* C19: addData returns the sum, over every line of the text, of the two
\* integers of that line: every line contributes, not only the first.
C19_AddDataSumsEveryLine ==
    pc \in {"addData:reduce", "addData:loop", "addData:index.js"} =>
        ret = PairTotal(LinesOf(str))

----------------------------------------------------------------------------
(* The SalaryReporter class that censors the fields of its employees *)

\* str.replace(/\d{3}-\d{2}-(\d{4})/, ...): without the g flag only the
\* first match is replaced
ReplaceFirst(s) ==
    LET j == NextMatch(s, 1)
    IN IF j = 0 THEN s
       ELSE SubSeq(s, 1, j - 1) \o Replacement(SubSeq(s, j + 7, j + 10))
            \o SubSeq(s, j + 11, Len(s))


\* SalaryReporter.censor over this.employees: every field of an employee
\* that holds a string
CensorEmployees(employees) ==
    [i \in 1..Len(employees) |->
        [employees[i] EXCEPT !.socialSecurity = ReplaceFirst(@),
                             !.firstName = ReplaceFirst(@),
                             !.lastName = ReplaceFirst(@)]]

\* an employee whose record holds a former and a current identifier
EmployeeTwoNumbers ==
    [active |-> TRUE,
     socialSecurity |-> Ssn165 \o <<"/">> \o
                        <<"5", "8", "7", "-", "4", "5", "-", "6", "3", "2", "2">>,
     firstName |-> <<"S", "u", "e">>, lastName |-> <<"R", "o", "e">>, pay |-> <<5>>]


InitReporter ==
    /\ pc = "start"
    /\ fileEmployees \in
          UNION { [1..n -> FileEmployees \cup {EmployeeTwoNumbers}] : n \in 0..MaxFileLen }
    /\ str = EmployeesText(fileEmployees)
    /\ outs = <<>>
    /\ heap = <<>>
    /\ xs = "none"
    /\ xs0 = <<>>
    /\ order = "undefined"
    /\ ret = "none"
    /\ table = <<>>
    /\ rendered = <<>>
    /\ now = 0
    /\ written = <<>>
    /\ objs = <<>>
    /\ calls = 0

\* new SalaryReporter(path): JSON.parse, filterByActive, sortByLastName,
\* censor, makeEmployeeSummaryTable
NewSalaryReporter ==
    /\ pc = "start"
    /\ LET employees ==
               CensorEmployees(ArraySort(FilterActive(JSONParse(str)), "none"))
       IN /\ heap' = <<employees>>
          /\ table' = makeEmployeeSummaryTableSS(employees)
    /\ ret' = 1
    /\ pc' = "reporter:constructed"
    /\ UNCHANGED <<textVars, xs, xs0, order, fileEmployees, rendered, envVars, objs>>

\* SalaryReporter.report(path)
ReportSalary ==
    /\ pc = "reporter:constructed"
    /\ written' = <<JoinNewline(table)>>
    /\ pc' = "reporter:reported"
    /\ UNCHANGED <<textVars, arrayVars, pipeVars, now, calls>>

\* The constructor of the same class, one method at a time: JSON.parse
\* creates the employee objects, and this.employees (xs) refers to an array
\* of references to them.

\* this.employees = JSON.parse(fs.readFileSync(path, ...))
ClassParse ==
    /\ pc = "start"
    /\ objs' = JSONParse(str)
    /\ heap' = <<[i \in 1..Len(JSONParse(str)) |-> i]>>
    /\ xs' = 1
    /\ pc' = "class:parsed"
    /\ UNCHANGED <<textVars, xs0, order, ret, pipeVars, envVars>>

\* this.filterByActive(): a new array of the references that pass
ClassFilterByActive ==
    /\ pc = "class:parsed"
    /\ heap' = Append(heap, SelectSeq(heap[xs], LAMBDA r : objs[r].active))
    /\ xs' = Len(heap) + 1
    /\ pc' = "class:filtered"
    /\ UNCHANGED <<textVars, objs, xs0, order, ret, pipeVars, envVars>>

\* this.sortByLastName(): this.employees.sort(...) reorders the references
\* of the array in place
ClassSortByLastName ==
    /\ pc = "class:filtered"
    /\ LET keyed == [i \in 1..Len(heap[xs]) |->
                        [ref |-> heap[xs][i], lastName |-> objs[heap[xs][i]].lastName]]
           sorted == ArraySort(keyed, "none")
       IN heap' = [heap EXCEPT ![xs] = [i \in 1..Len(sorted) |-> sorted[i].ref]]
    /\ pc' = "class:sorted"
    /\ UNCHANGED <<textVars, objs, xs, xs0, order, ret, pipeVars, envVars>>

\* this.censor(): empl[field] = empl[field].replace(...) assigns to the
\* fields of each object of this.employees; ret is a new array of the same
\* references
ClassCensor ==
    /\ pc = "class:sorted"
    /\ objs' = [r \in DOMAIN objs |->
                   IF \E i \in 1..Len(heap[xs]) : heap[xs][i] = r
                   THEN CensorEmployees(<<objs[r]>>)[1]
                   ELSE objs[r]]
    /\ heap' = Append(heap, heap[xs])
    /\ xs' = Len(heap) + 1
    /\ pc' = "class:censored"
    /\ UNCHANGED <<textVars, xs0, order, ret, pipeVars, envVars>>

\* this.employeeSummaryTable = this.makeEmployeeSummaryTable()
ClassTabulate ==
    /\ pc = "class:censored"
    /\ table' = makeEmployeeSummaryTableSS([i \in 1..Len(heap[xs]) |-> objs[heap[xs][i]]])
    /\ pc' = "class:tabulated"
    /\ UNCHANGED <<textVars, arrayVars, fileEmployees, rendered, envVars>>

\* reporter.report(outPath)
ClassReport ==
    /\ pc = "class:tabulated"
    /\ written' = <<JoinNewline(table)>>
    /\ pc' = "class:reported"
    /\ UNCHANGED <<textVars, arrayVars, pipeVars, now, calls>>

\* SalaryReporter.censor of the class that censors in report(): every cell
\* of every data row becomes data.toString() with its first match replaced
CensorTable(employeeSummaryTable) ==
    <<employeeSummaryTable[1]>> \o
    [r \in 1..(Len(employeeSummaryTable) - 1) |->
        [k \in 1..Len(employeeSummaryTable[r + 1]) |->
            StringCell(ReplaceFirst(ToStr(employeeSummaryTable[r + 1][k])))]]

\* new SalaryReporter(path) of that class: JSON.parse, sortByLastName,
\* makeEmployeeSummaryTable
NewSalaryReporterCensoringLate ==
    /\ pc = "start"
    /\ LET employees == ArraySort(JSONParse(str), "none")
       IN /\ heap' = <<employees>>
          /\ table' = makeEmployeeSummaryTableSS(employees)
    /\ ret' = 1
    /\ pc' = "late:constructed"
    /\ UNCHANGED <<textVars, xs, xs0, order, fileEmployees, rendered, envVars, objs>>

\* report(path) of that class: this.censor(), then writeFileSync
ReportCensoring ==
    /\ pc \in {"late:constructed", "late:reported"}
    /\ Len(written) < MaxCalls
    /\ table' = CensorTable(table)
    /\ written' = Append(written, JoinNewline(CensorTable(table)))
    /\ pc' = "late:reported"
    /\ UNCHANGED <<textVars, arrayVars, fileEmployees, rendered, now, calls>>

\* employeeJSONToTable = compose(JSONtoTable, sortByLastName,
\* filter((x) => x.active), JSON.parse, censor), where it does not throw
employeeJSONToTable(employeesStr) ==
    JSONtoTable(ArraySort(FilterActive(JSONParse(censor(employeesStr))), "none"))

NextReporter ==
    \/ NewSalaryReporter
    \/ ReportSalary
    \/ NewSalaryReporterCensoringLate
    \/ ReportCensoring
    \/ ClassParse
    \/ ClassFilterByActive
    \/ ClassSortByLastName
    \/ ClassCensor
    \/ ClassTabulate
    \/ ClassReport

SpecReporter == InitReporter /\ [][NextReporter]_vars

HasIdentifier(s) == \E k \in 1..Len(s) : MatchesAt(s, k)

\* C20: after the constructor of the class that censors per field, no string
\* field of a retained employee holds a substring of the form ddd-dd-dddd.
C20_NoIdentifierLeftInAnyField ==
    pc = "reporter:constructed" =>
        \A i \in 1..Len(heap[ret]) :
            /\ ~HasIdentifier(heap[ret][i].socialSecurity)
            /\ ~HasIdentifier(heap[ret][i].firstName)
            /\ ~HasIdentifier(heap[ret][i].lastName)

----------------------------------------------------------------------------
(* The monolithic SalaryReporter on employees.json as published: the
   payments are number literals with a fraction *)

SampleMary ==
    [active |-> TRUE,
     socialSecurity |-> <<"5", "8", "7", "-", "4", "5", "-", "6", "3", "2", "2">>,
     firstName |-> <<"M", "a", "r", "y">>, lastName |-> <<"J", "a", "n", "e">>,
     pay |-> << <<"1", "2", "0", "8", "3", ".", "3", "3">>,
             <<"1", "2", "0", "8", "3", ".", "3", "3">>,
             <<"1", "2", "0", "8", "3", ".", "3", "3">>,
             <<"1", "1", "0", "0", "0">>,
             <<"1", "2", "1", "0", "2", ".", "2", "4">>,
             <<"1", "2", "0", "8", "3", ".", "3", "3">>,
             <<"1", "2", "0", "8", "3", ".", "3", "3">>,
             <<"1", "2", "0", "8", "3", ".", "3", "3">>,
             <<"2", "0", "0", "7", "6">>,
             <<"1", "2", "0", "8", "3", ".", "3", "3">>,
             <<"1", "2", "0", "8", "3", ".", "3", "3">>,
             <<"1", "2", "0", "8", "3", ".", "3", "3">> >>]

SampleJohn ==
    [active |-> TRUE,
     socialSecurity |-> Ssn165,
     firstName |-> <<"J", "o", "h", "n">>, lastName |-> <<"D", "o", "e">>,
     pay |-> << <<"8", "3", "3", "3", ".", "3", "3">>,
             <<"8", "3", "3", "3", ".", "3", "3">>,
             <<"8", "3", "3", "3", ".", "3", "3">>,
             <<"8", "0", "2", "1", ".", "4", "5">>,
             <<"7", "0", "2", "3">>,
             <<"9", "0", "2", "3", ".", "6", "7">>,
             <<"8", "3", "3", "3", ".", "3", "3">>,
             <<"8", "3", "3", "3", ".", "3", "3">>,
             <<"8", "3", "3", "3", ".", "3", "3">>,
             <<"6", "5", "0", "0">>,
             <<"8", "3", "3", "3", ".", "3", "3">>,
             <<"8", "3", "3", "3", ".", "3", "3">> >>]

SampleRobert ==
    [active |-> FALSE,
     socialSecurity |-> <<"2", "0", "3", "-", "9", "8", "-", "7", "8", "9", "9">>,
     firstName |-> <<"R", "o", "b", "e", "r", "t">>,
     lastName |-> <<"B", "r", "o", "w", "n">>,
     pay |-> << <<"1", "2", "3">>, <<"1", "0", "0">>, <<"1", "2", "3", "4">> >>]

\* an active employee paid in tenths
SampleTenths ==
    [active |-> TRUE,
     socialSecurity |-> <<"3", "1", "1", "-", "2", "2", "-", "4", "0", "0", "4">>,
     firstName |-> <<"A", "n", "n">>, lastName |-> <<"L", "e", "e">>,
     pay |-> << <<"0", ".", "1">>, <<"0", ".", "2">> >>]



\* let employeeTotal = 0; for (j ...) employeeTotal += employee.pay[j]
RECURSIVE LoopTotal64(_)
LoopTotal64(pay) ==
    IF pay = <<>> THEN Zero64
    ELSE Add64(LoopTotal64(SubSeq(pay, 1, Len(pay) - 1)), pay[Len(pay)])

RECURSIVE SummaryRows64(_)
SummaryRows64(employees) ==
    IF employees = <<>> THEN <<>>
    ELSE IF Head(employees).active
         THEN << <<StringCell(Head(employees).lastName),
                   StringCell(Head(employees).firstName),
                   Number64Cell(LoopTotal64(Head(employees).pay))>> >>
              \o SummaryRows64(Tail(employees))
         ELSE SummaryRows64(Tail(employees))

\* makeEmployeeSummaryTable of the monolithic class on Numbers
makeEmployeeSummaryTable64(employees) ==
    <<SummaryHeader>> \o SummaryRows64(employees)

InitMonolithic ==
    /\ pc = "start"
    /\ fileEmployees \in
          UNION { [1..n -> {SampleMary, SampleJohn, SampleRobert, SampleTenths}] :
                    n \in 0..MaxFileLen }
    /\ str = <<>>
    /\ outs = <<>>
    /\ heap = <<>>
    /\ xs = "none"
    /\ xs0 = <<>>
    /\ order = "undefined"
    /\ ret = "none"
    /\ table = <<>>
    /\ rendered = <<>>
    /\ now = 0
    /\ written = <<>>
    /\ objs = <<>>
    /\ calls = 0

\* new SalaryReporter(path): JSON.parse (every number literal becomes a
\* Number), sortByLastName, makeEmployeeSummaryTable
NewMonolithicReporter ==
    /\ pc = "start"
    /\ LET parsed(e) ==
               [e EXCEPT !.pay = [k \in 1..Len(e.pay) |-> JSONNumber(e.pay[k])]]
           employees ==
               ArraySort([i \in 1..Len(fileEmployees) |-> parsed(fileEmployees[i])],
                         "none")
       IN /\ heap' = <<employees>>
          /\ table' = makeEmployeeSummaryTable64(employees)
    /\ ret' = 1
    /\ pc' = "mono:constructed"
    /\ UNCHANGED <<textVars, xs, xs0, order, fileEmployees, rendered, envVars, objs>>

\* SalaryReporter.report(path)
ReportMonolithic ==
    /\ pc = "mono:constructed"
    /\ written' = <<JoinNewline(table)>>
    /\ pc' = "mono:reported"
    /\ UNCHANGED <<textVars, arrayVars, pipeVars, now, calls>>

NextMonolithic ==
    \/ NewMonolithicReporter
    \/ ReportMonolithic

SpecMonolithic == InitMonolithic /\ [][NextMonolithic]_vars

\* the active records of the file are John Doe and Mary Jane, once each
SampleFile ==
    /\ Count(fileEmployees, SampleJohn) = 1
    /\ Count(fileEmployees, SampleMary) = 1
    /\ \A i \in 1..Len(fileEmployees) :
          fileEmployees[i].active => fileEmployees[i] \in {SampleJohn, SampleMary}

SampleReport ==
    <<"L", "a", "s", "t", " ", "N", "a", "m", "e", ",", "F", "i", "r", "s",
      "t", " ", "N", "a", "m", "e", ",", "T", "o", "t", "a", "l", " ", "S",
      "a", "l", "a", "r", "y", "\n", "D", "o", "e", ",", "J", "o", "h", "n",
      ",", "9", "7", "2", "3", "4", ".", "7", "6", "\n", "J", "a", "n", "e",
      ",", "M", "a", "r", "y", ",", "1", "5", "1", "9", "2", "8", ".", "2",
      "1">>

\* C18: for the sample records John Doe and Mary Jane, tabulating and
\* rendering as CSV gives exactly the three lines
\* "Last Name,First Name,Total Salary", "Doe,John,97234.76" and
\* "Jane,Mary,151928.21".
C18_SampleReportIsThreeLines ==
    (pc = "mono:reported" /\ SampleFile) => written = <<SampleReport>>

\* the file as published has been reported
C18_Witness ==
    /\ pc = "mono:reported"
    /\ fileEmployees = <<SampleMary, SampleJohn, SampleRobert>>
    /\ Len(Split(written[1], "\n")) = 3

----------------------------------------------------------------------------
(* The order of the stages of employeesToCSV and employeesToHTML *)

\* the stages of the composition whose result exists
CensorDone == outs # <<>>
DecodeDone == Len(heap) >= 1
SelectDone == Len(heap) >= 2
SortDone == pc \in {"pipe:sorted", "pipe:tabulated", "pipe:threw", "pipe:csv", "pipe:html"}
TabulateDone == table # <<>>
RenderDone == rendered # <<>>

\* C22 as stated: the stages execute in the order Decode, Censor, Select,
\* Sort, Tabulate, Render: censoring happens after decoding and before
\* selection, and no stage starts before its predecessor has produced its
\* result.
C22_DecodeThenCensorThenSelect ==
    /\ CensorDone => DecodeDone
    /\ SelectDone => CensorDone
    /\ SortDone => SelectDone
    /\ TabulateDone => SortDone
    /\ RenderDone => TabulateDone

\* C22 amended: in every run of the functional pipeline the stages execute
\* in the order Censor, Decode, Select, Sort, Tabulate, Render: the raw text
\* is censored before it is decoded, the decoder is given the censored text,
\* and no stage starts before its predecessor has produced its result.
C22_CensorThenDecodeThenSelect ==
    /\ DecodeDone => CensorDone /\ heap[1] = JSONParse(outs[1])
    /\ SelectDone => DecodeDone
    /\ SortDone => SelectDone
    /\ TabulateDone => SortDone
    /\ RenderDone => TabulateDone /\ pc \in {"pipe:csv", "pipe:html"}

\* the composition has rendered a file of three records as HTML, the text
\* it decoded being the censored text and not the text of the file
C22_Witness ==
    /\ pc = "pipe:html"
    /\ Len(fileEmployees) = 3
    /\ outs[1] # str
    /\ RenderDone

----------------------------------------------------------------------------
(* The tabulators on records that JSON.parse may return: pay absent, or pay
   holding values that are not numbers *)

\* a + b of JavaScript on two values: the sum of two numbers, and the
\* concatenation of the two values as strings when one of them is a string
Plus(a, b) ==
    IF a.type = "number" /\ b.type = "number"
    THEN NumberCell(a.value + b.value)
    ELSE StringCell(ToStr(a) \o ToStr(b))

\* let employeeTotal = 0; for (j ...) employeeTotal += employee.pay[j]
RECURSIVE LoopTotalAny(_)
LoopTotalAny(pay) ==
    IF pay = <<>> THEN NumberCell(0)
    ELSE Plus(LoopTotalAny(SubSeq(pay, 1, Len(pay) - 1)), pay[Len(pay)])

\* x.pay.reduce((acc, curr) => acc + curr) on a non-empty array
RECURSIVE ReducePayAny(_)
ReducePayAny(pay) ==
    IF Len(pay) = 1 THEN pay[1]
    ELSE Plus(ReducePayAny(SubSeq(pay, 1, Len(pay) - 1)), pay[Len(pay)])

InitShape ==
    /\ pc = "start"
    /\ str = <<>>
    /\ outs = <<>>
    /\ LET pays == { <<>>, <<NumberCell(7)>>, <<NumberCell(1), NumberCell(2)>>,
                     <<NumberCell(1), StringCell(<<"2">>)>>, <<StringCell(<<"7">>)>> }
           employees ==
               { [active |-> a, socialSecurity |-> Ssn165, firstName |-> <<"J">>,
                  lastName |-> <<"A">>, pay |-> p] : a \in BOOLEAN, p \in pays }
               \cup
               { [active |-> a, socialSecurity |-> Ssn165, firstName |-> <<"J">>,
                  lastName |-> <<"A">>] : a \in BOOLEAN }
       IN \E arr \in UNION { [1..n -> employees] : n \in 0..MaxLen } :
             heap = <<arr>> /\ xs0 = arr
    /\ xs = 1
    /\ order = "undefined"
    /\ ret = "none"
    /\ fileEmployees = <<>>
    /\ table = <<>>
    /\ rendered = <<>>
    /\ now = 0
    /\ written = <<>>
    /\ objs = <<>>
    /\ calls = 0

\* JSONtoTable(employees): x.pay.reduce throws a TypeError when x.pay is
\* undefined and when it is an empty array
CallJSONtoTableAny ==
    /\ pc = "start"
    /\ IF \E i \in 1..Len(heap[xs]) :
             "pay" \notin DOMAIN heap[xs][i] \/ heap[xs][i].pay = <<>>
       THEN pc' = "threw:JSONtoTable" /\ table' = table
       ELSE /\ pc' = "JSONtoTable"
            /\ table' = <<JSONtoTableHeader>> \o
                  [i \in 1..Len(heap[xs]) |->
                      <<StringCell(heap[xs][i].lastName),
                        StringCell(heap[xs][i].firstName),
                        StringCell(heap[xs][i].socialSecurity),
                        ReducePayAny(heap[xs][i].pay)>>]
    /\ UNCHANGED <<textVars, arrayVars, fileEmployees, rendered, envVars>>

\* makeEmployeeSummaryTable(): employee.pay.length throws a TypeError when
\* the pay of an active employee is undefined
CallMakeEmployeeSummaryTableAny ==
    /\ pc = "start"
    /\ IF \E i \in 1..Len(heap[xs]) :
             heap[xs][i].active /\ "pay" \notin DOMAIN heap[xs][i]
       THEN pc' = "threw:makeEmployeeSummaryTable" /\ table' = table
       ELSE /\ pc' = "makeEmployeeSummaryTable"
            /\ LET employees == SelectSeq(heap[xs], LAMBDA e : e.active)
               IN table' = <<SummaryHeaderWithSocialSecurity>> \o
                     [i \in 1..Len(employees) |->
                         <<StringCell(employees[i].lastName),
                           StringCell(employees[i].firstName),
                           StringCell(employees[i].socialSecurity),
                           LoopTotalAny(employees[i].pay)>>]
    /\ UNCHANGED <<textVars, arrayVars, fileEmployees, rendered, envVars>>

NextShape ==
    \/ CallJSONtoTableAny
    \/ CallMakeEmployeeSummaryTableAny

SpecShape == InitShape /\ [][NextShape]_vars

\* a record whose pay is absent or holds a value that is not a number
ShapeMismatch(e) ==
    \/ "pay" \notin DOMAIN e
    \/ \E j \in 1..Len(e.pay) : e.pay[j].type # "number"

\* C24: a record whose pay attribute is absent, or is a sequence containing
\* a non-number, makes tabulation fail with an error: no total of zero, no
\* empty cell and no concatenated string is produced, and no table.
C24_ShapeMismatchFails ==
    /\ (pc \in {"JSONtoTable", "threw:JSONtoTable"}
        /\ \E i \in 1..Len(xs0) : ShapeMismatch(xs0[i]))
          => pc = "threw:JSONtoTable" /\ table = <<>>
    /\ (pc \in {"makeEmployeeSummaryTable", "threw:makeEmployeeSummaryTable"}
        /\ \E i \in 1..Len(xs0) : xs0[i].active /\ ShapeMismatch(xs0[i]))
          => pc = "threw:makeEmployeeSummaryTable" /\ table = <<>>

----------------------------------------------------------------------------
(* Claims about where and when the report is censored *)

\* C21: employee records are never mutated after decoding: every stage
\* (select, sort, censor, tabulate) leaves each record object it receives
\* with all of its fields unchanged.
C21_RecordsNeverMutated ==
    [][\A r \in DOMAIN objs : objs'[r] = objs[r]]_vars

\* the lines of a CSV text after its header line
DataLines(csv) == Tail(Split(csv, "\n"))

\* C27: censoring the raw text before decoding (functional pipeline),
\* censoring each string field after filtering and sorting (class variant)
\* and censoring the table cells at report time all produce the same CSV
\* data rows for every input, also when one field holds more than one
\* identifier.
C27_CensorPlacementSameRows ==
    (pc \in {"reporter:reported", "late:reported"} /\ Len(written) = 1) =>
        /\ ~JSONtoTableThrows(ArraySort(FilterActive(JSONParse(censor(str))), "none"))
        /\ DataLines(written[1]) = DataLines(JoinNewline(employeeJSONToTable(str)))

\* C28: in the class that censors inside report(), calling report() any
\* number of times on the same instance writes the same content every time.
C28_ReportWritesSameContent ==
    pc = "late:reported" =>
        \A i, j \in 1..Len(written) : written[i] = written[j]

----------------------------------------------------------------------------
(* Two arrays holding the same records, sorted and filtered in different
   ways: heap[1] and heap[2] start equal to xs0 *)

InitCopies ==
    /\ pc = "start"
    /\ str = <<>>
    /\ outs = <<>>
    /\ \E arr \in UNION { [1..n -> Employees] : n \in 0..MaxLen } :
          heap = <<arr, arr>> /\ xs0 = arr
    /\ xs = 1
    /\ order = "undefined"
    /\ ret = "none"
    /\ fileEmployees = <<>>
    /\ table = <<>>
    /\ rendered = <<>>
    /\ now = 0
    /\ written = <<>>
    /\ objs = <<>>
    /\ calls = 0

\* sortByLastName(xs, "desc") on the first array
SortDesc ==
    /\ pc = "start"
    /\ heap' = [heap EXCEPT ![1] = ArraySort(heap[1], "desc")]
    /\ pc' = "copies:desc"
    /\ UNCHANGED <<textVars, objs, xs, xs0, order, ret, pipeVars, envVars>>

\* sortByLastName(xs, "asc") on the second array
SortAsc ==
    /\ pc = "copies:desc"
    /\ heap' = [heap EXCEPT ![2] = ArraySort(heap[2], "asc")]
    /\ pc' = "copies:both"
    /\ UNCHANGED <<textVars, objs, xs, xs0, order, ret, pipeVars, envVars>>

\* the first array sorted in place by sortByLastName, then its active
\* records kept: heap[3]
SortThenSelect ==
    /\ pc = "start"
    /\ heap' = Append([heap EXCEPT ![1] = ArraySort(heap[1], "none")],
                      FilterActive(ArraySort(heap[1], "none")))
    /\ pc' = "copies:sortedSelected"
    /\ UNCHANGED <<textVars, objs, xs, xs0, order, ret, pipeVars, envVars>>

\* the active records of the second array kept in a new array, which
\* sortByLastName then sorts in place: heap[4]
SelectThenSort ==
    /\ pc = "copies:sortedSelected"
    /\ heap' = Append(heap, ArraySort(FilterActive(heap[2]), "none"))
    /\ pc' = "copies:commuted"
    /\ UNCHANGED <<textVars, objs, xs, xs0, order, ret, pipeVars, envVars>>

NextCopies ==
    \/ SortDesc
    \/ SortAsc
    \/ SortThenSelect
    \/ SelectThenSort

SpecCopies == InitCopies /\ [][NextCopies]_vars

Reverse(s) == [i \in 1..Len(s) |-> s[Len(s) + 1 - i]]

\* C29: selection and sorting commute: for every input sequence, sorting
\* then keeping the active records gives the same sequence as keeping the
\* active records then sorting.
C29_SelectAndSortCommute ==
    pc = "copies:commuted" => heap[3] = heap[4]

\* both orders have been applied to an unsorted array in which an inactive
\* and an active record share a lastName and two active records remain
C29_Witness ==
    /\ pc = "copies:commuted"
    /\ heap[1] # xs0
    /\ \E i, j \in 1..Len(xs0) :
          xs0[i].lastName = xs0[j].lastName /\ xs0[i].active /\ ~xs0[j].active
    /\ Len(heap[4]) = 2
    /\ heap[4] # FilterActive(xs0)

\* C30 as stated: for every input sequence the result of sortByLastName with
\* order "desc" is the exact reverse of its result with order "asc",
\* including when several records share the same lastName.
C30_DescIsReverseOfAsc ==
    pc = "copies:both" => heap[1] = Reverse(heap[2])

\* C30 amended: for every input sequence the last names of the result with
\* order "desc" are the exact reverse of the last names of the result with
\* order "asc", and the two results are exact reverses of each other
\* whenever no two different records share a lastName; records that share a
\* lastName keep their input order under both settings.
C30_DescReversesAscUpToTies ==
    pc = "copies:both" =>
        /\ LastNamesOf(heap[1]) = Reverse(LastNamesOf(heap[2]))
        /\ (\A i, j \in 1..Len(xs0) :
               xs0[i].lastName = xs0[j].lastName => xs0[i] = xs0[j])
              => heap[1] = Reverse(heap[2])
        /\ \A l \in LastNames :
              /\ WithLastName(heap[1], l) = WithLastName(xs0, l)
              /\ WithLastName(heap[2], l) = WithLastName(xs0, l)

\* both orders have been applied to three records, two of them different
\* records sharing a lastName
C30_Witness ==
    /\ pc = "copies:both"
    /\ Len(xs0) = 3
    /\ xs0[1].lastName = xs0[3].lastName /\ xs0[1] # xs0[3]
    /\ xs0[2].lastName # xs0[1].lastName
    /\ heap[1] # heap[2]

====
